---- MODULE Spec2Model ----
(***************************************************************************)
(* Model of the remote orchestration engine of vmmigrate/fio-tests.py:     *)
(* CommandExecutor (transport selection, execute_command with bounded      *)
(* retry, execute_background, check_task_running), the fleet-wide pool     *)
(* steps of prepare_storage, migrate_vms_during_test and the driver loop   *)
(* of run_fio_tests.                                                       *)
(***************************************************************************)
EXTENDS Integers, Sequences, FiniteSets, TLC

(***************************************************************************)
(* Bounds of the model.                                                    *)
(***************************************************************************)
NumHosts == 2
MaxRetries == 3

Hosts == 1..NumHosts

VARIABLES
    config,     \* FioTestConfig: the fields the engine reads
    ex,         \* one execute_command call per thread: its position and counters
    \* prepare_storage (main thread and the pool of the current step)
    step,       \* 1 directories, 2 validate, 3 unmount, 4 format, 5 mount
    phase,      \* "off", "submit", "collect", "unwind", "returned", "exited"
    futures,    \* the list `futures` of the current with-block (hosts submitted)
    collected,  \* hosts whose future.result() the as_completed loop has read
    pending,    \* the exception propagating out of the with-block, or "none"
    exit_code,  \* exit code of the process, -1 while it runs
    succeeded   \* per must-succeed step: hosts whose call returned success

VARIABLES
    \* migrate_vms_during_test
    mig_pc,          \* position of the coordinator
    vms_to_migrate,  \* the list built from config.vm_hosts and is_vm_host
    failed_vms,      \* hosts that failed the first attempt, in order of failure
    retry_failed,    \* hosts that failed the retry attempt
    mig_pass,        \* 1 first attempt, 2 retry
    mig_idx,         \* sequential mode: index of the current host in the list
    mig_state,       \* per host: "idle", "queued", "running", "ok", "fail"
    mig_collected,   \* parallel mode: futures read by as_completed
    mig_attempts,    \* per host: migration commands issued in this call
    mig_out,         \* per host: outcomes of its first and of its retry attempt
    mig_sleeps,      \* sequential mode: time.sleep(migrate_interval) calls
    mig_result       \* "none", "True" or "False": the value returned

poolVars == <<step, phase, futures, collected, pending, exit_code, succeeded>>

migVars == <<mig_pc, vms_to_migrate, failed_vms, retry_failed, mig_pass, mig_idx,
             mig_state, mig_collected, mig_attempts, mig_out, mig_sleeps,
             mig_result>>

VARIABLES
    \* execute_background: the thread started for each host, and the job
    fio_cmd,    \* the command handed to execute_background
    launch,     \* per host: the launch thread (run_command)
    job         \* per host: the launched process, "none", "running" or "ended"

launchVars == <<fio_cmd, launch, job>>

VARIABLES
    \* run_fio_tests (main thread)
    iter,               \* index of the current (block size, pattern) pair
    drv_pc,             \* position of the driver in the iteration
    drv_k,              \* hosts already handled by the current for loop
    drv_call,           \* the execute_command call the main thread is in
    since_start,        \* time.time() - start_time, in seconds
    all_done,           \* locals of the poll loop
    running_count,
    result_files_exist

drvVars == <<iter, drv_pc, drv_k, drv_call, since_start, all_done,
             running_count, result_files_exist>>

VARIABLES
    \* run_fio_tests: what the run has done so far
    visited,    \* the (block size, pattern) pairs dispatched, in order
    launches,   \* per host: execute_background calls of the current iteration
    mig_calls,  \* migrate_vms_during_test calls of the current iteration
    mid_sleep,  \* seconds of the midpoint sleep of the current iteration, -1: none
    mig_returned, \* what migrate_vms_during_test returned, until polling starts
    mig_pattern \* the pattern migrate_vms_during_test was called with

histVars == <<visited, launches, mig_calls, mid_sleep, mig_returned,
             mig_pattern>>

VARIABLES
    \* main
    main_pc,    \* position of main()
    args,       \* the parsed command line
    yaml,       \* what the configuration file holds
    settings,   \* config.retry_interval, max_retries, task_monitor_interval
    remote,     \* kinds of remote operations issued so far
    main_exit,  \* exit code of main, -1 while it runs
    confirm     \* what the operator typed at the prompt, "none": not asked

mainVars == <<main_pc, args, yaml, settings, remote, main_exit, confirm>>

VARIABLES
    \* is_vm_host called again and again for the hosts
    probes,     \* per host: is_vm_host calls that went to the control plane
    kinds,      \* per host: the values is_vm_host returned, in order
    last_probe  \* the last is_vm_host call: its host and what its probes met

classVars == <<probes, kinds, last_probe>>

VARIABLES
    \* one execute_command call with its durations
    tcall,      \* the call
    tparams,    \* its timeout and retry_interval, in seconds
    tspent      \* seconds spent in classification, in attempts and in sleeps

timedVars == <<tcall, tparams, tspent>>

VARIABLES
    \* run_fio_tests: the strings built from test_name
    artifact    \* per iteration started: the names put into its commands

nameVars == <<artifact>>

auxVars == <<mainVars, classVars, timedVars, nameVars>>

vars == <<config, ex, poolVars, migVars, launchVars, drvVars, histVars, auxVars>>

(***************************************************************************)
(* FioTestConfig after main() and ConfigLoader.load_config().              *)
(* use_virtctl is "None" (auto-detect), "True" (force virtctl) or "False"  *)
(* (force SSH).  namespace "" stands for an unset, null or empty value.    *)
(***************************************************************************)
Namespaces == {"ns1", "N/A", ""}

\* load_config: SSH-only forces namespace "N/A", otherwise the YAML value.
LoadedNamespaces(use_virtctl) ==
    IF use_virtctl = "False" THEN {"N/A"} ELSE Namespaces

NamespaceUnset(ns) == ns = "" \/ ns = "N/A"

Patterns == {"read", "randwrite"}

\* FioTestConfig.__init__ with the fields load_config always sets
\* test_runtime 0 stands for None (load_config, line 374)
BaseConfig ==
    [use_virtctl |-> "None", namespace |-> "ns1", dry_run |-> FALSE,
     max_retries |-> 1, migrate_workloads |-> {}, migrate_interval |-> 0,
     test_runtime |-> 0, block_sizes |-> <<"4k">>, io_patterns |-> <<"read">>]

\* the configurations main() can build from the command line and the YAML file
TransportConfigs ==
    {c \in [use_virtctl : {"None", "True", "False"}, namespace : Namespaces] :
        c.namespace \in LoadedNamespaces(c.use_virtctl)}

\* a classification that takes a host for a VM when the probe timed out
is_vm_host_fail_closed(cfg, p1, p2) ==
    IF cfg.use_virtctl = "False" THEN FALSE
    ELSE IF cfg.use_virtctl = "True" THEN TRUE
    ELSE IF cfg.namespace = "" \/ cfg.namespace = "N/A" THEN FALSE
    ELSE p1 \in {"found", "timeout"} \/ (p1 = "notfound" /\ p2 = "found")

(***************************************************************************)
(* CommandExecutor.is_vm_host.  p1 and p2 are the outcomes of the two      *)
(* control-plane probes (oc get vm, oc get vmi): "found", "notfound",      *)
(* "timeout" (TimeoutExpired) or "missing" (FileNotFoundError).            *)
(***************************************************************************)
ProbeOutcomes == {"found", "notfound", "timeout", "missing"}

is_vm_host(cfg, p1, p2) ==
    IF cfg.use_virtctl = "False" THEN FALSE
    ELSE IF cfg.use_virtctl = "True" THEN TRUE
    ELSE IF NamespaceUnset(cfg.namespace) THEN FALSE
    ELSE IF p1 = "found" THEN TRUE
    ELSE IF p1 \in {"timeout", "missing"} THEN FALSE
    ELSE p2 = "found"

\* the answers is_vm_host can give under cfg, over all probe outcomes
Classifications(cfg) ==
    {is_vm_host(cfg, p1, p2) : p1 \in ProbeOutcomes, p2 \in ProbeOutcomes}

\* get_ssh_command: "virtctl" or "ssh" form, or ValueError ("raise").
get_ssh_command(cfg, vm) ==
    IF vm
    THEN IF NamespaceUnset(cfg.namespace) THEN "raise" ELSE "virtctl"
    ELSE "ssh"

(***************************************************************************)
(* CommandExecutor.execute_command, one record per call.                   *)
(*   pc: "idle" (not called), "attempt" (about to issue subprocess.run),   *)
(*       "sleep" (in time.sleep(retry_interval)), "done" (returned),       *)
(*       "raised" (ended by an exception propagating to the caller).       *)
(***************************************************************************)
Outcomes == {"ok", "nonzero", "timeout", "exception"}

IdleCall ==
    [pc |-> "idle", max_retries |-> 0, attempt |-> 0, invocations |-> 0,
     sleeps |-> 0, last |-> "none", success |-> FALSE, output |-> "",
     transport |-> "none"]

Return(e, ok, out) ==
    [e EXCEPT !.pc = "done", !.success = ok, !.output = out]

\* for attempt in range(1, max_retries + 1): is there an iteration `attempt`?
LoopHas(attempt, m) == attempt <= m

\* the head of the for loop: next attempt, or fall out of the loop
LoopHead(e, attempt) ==
    IF LoopHas(attempt, e.max_retries)
    THEN [e EXCEPT !.pc = "attempt", !.attempt = attempt, !.last = "none"]
    ELSE Return([e EXCEPT !.last = "none"], FALSE, "Max retries exceeded")

\* lines 166-180: defaults, dry-run short cut, transport command
execute_command_begin(cfg, e, m, vm) ==
    LET e1 == [e EXCEPT !.max_retries = m] IN
    IF cfg.dry_run THEN Return(e1, TRUE, "")
    ELSE LET form == get_ssh_command(cfg, vm) IN
         IF form = "raise"
         THEN [e1 EXCEPT !.pc = "raised", !.output = "ValueError"]
         ELSE LoopHead([e1 EXCEPT !.transport = form], 1)

\* a failed attempt that sleeps after the last attempt too
RetrySleepsAfterLast(e, out) ==
    IF e.attempt <= e.max_retries
    THEN [e EXCEPT !.pc = "sleep"]
    ELSE Return(e, FALSE, out)

\* lines 196-205 and 215-220: a failed attempt retries while attempts remain
RetryOrFail(e, out) ==
    IF e.attempt < e.max_retries
    THEN [e EXCEPT !.pc = "sleep"]
    ELSE Return(e, FALSE, out)

\* lines 207-213: TimeoutExpired returns at once
OnTimeout(e) == Return(e, FALSE, "Command timeout")

\* lines 183-220: one subprocess.run and the handling of its outcome o
execute_command_attempt(e, o) ==
    LET e1 == [e EXCEPT !.invocations = @ + 1, !.last = o] IN
    CASE o = "ok"        -> Return(e1, TRUE, "stdout")
      [] o = "nonzero"   -> RetryOrFail(e1, "stderr")
      [] o = "timeout"   -> OnTimeout(e1)
      [] o = "exception" -> RetryOrFail(e1, "exception")

\* a retry that does not count the attempt it follows
execute_command_slept_same_attempt(e) ==
    LoopHead([e EXCEPT !.sleeps = @ + 1], e.attempt)

\* lines 202, 217: time.sleep(retry_interval) ends, the loop goes on
execute_command_slept(e) ==
    LoopHead([e EXCEPT !.sleeps = @ + 1], e.attempt + 1)

(***************************************************************************)
(* The steps of prepare_storage.  Steps 2, 4 and 5 call sys.exit(1) on the *)
(* first failed result they read.                                          *)
(***************************************************************************)
Steps == 1..5
MustSucceedSteps == {2, 4, 5}

NoneSucceeded == [s \in MustSucceedSteps |-> {}]

\* the pool variables while prepare_storage is not running
PoolOff ==
    /\ step = 0 /\ phase = "off" /\ futures = <<>> /\ collected = {}
    /\ pending = "none" /\ exit_code = -1 /\ succeeded = NoneSucceeded

\* the migration variables while migrate_vms_during_test is not running
MigIdle ==
    /\ vms_to_migrate = <<>> /\ failed_vms = <<>> /\ retry_failed = <<>>
    /\ mig_pass = 1 /\ mig_idx = 0
    /\ mig_state = [h \in Hosts |-> "idle"]
    /\ mig_collected = {}
    /\ mig_attempts = [h \in Hosts |-> 0]
    /\ mig_out = [h \in Hosts |-> <<"none", "none">>]
    /\ mig_sleeps = 0
    /\ mig_result = "none"

MigOff == mig_pc = "off" /\ MigIdle

\* a thread that was not started (sent: start scripts sent to the host,
\* procs: processes those scripts started)
NoThread ==
    [pc |-> "idle", use_nohup |-> FALSE, state |-> "none", pid |-> FALSE,
     branch |-> "none", seen |-> "none", steps |-> 0, sent |-> 0, procs |-> 0]

NoCommand == [fio |-> FALSE, runtime |-> -1]

\* the launch variables while no launch was made
LaunchIdle ==
    /\ launch = [h \in Hosts |-> NoThread]
    /\ job = [h \in Hosts |-> "none"]

LaunchOff == fio_cmd = NoCommand /\ LaunchIdle

\* the locals of the poll loop before its first round
PollIdle ==
    /\ since_start = 0 /\ all_done = TRUE
    /\ running_count = 0 /\ result_files_exist = 0

\* the driver variables while run_fio_tests is not running
DrvOff ==
    /\ iter = 0 /\ drv_pc = "off" /\ drv_k = 0 /\ drv_call = IdleCall
    /\ PollIdle

\* the history of run_fio_tests at the start of an iteration
HistIdle ==
    /\ launches = [h \in Hosts |-> 0] /\ mig_calls = 0 /\ mid_sleep = -1
    /\ mig_returned = "none" /\ mig_pattern = "none"

HistOff == visited = <<>> /\ HistIdle

NoArgs == [dry_run |-> FALSE, interval |-> -1, max_retries |-> -1,
           monitor_interval |-> -1, prepare_machine |-> FALSE,
           yes_i_mean_it |-> FALSE]

NoYaml == [hosts |-> "list", valid |-> TRUE, interval |-> 0, max_retries |-> 0,
           task_monitor_interval |-> 0]

\* FioTestConfig.__init__ leaves the three values None (-1)
NoSettings == [retry_interval |-> -1, max_retries |-> -1,
               task_monitor_interval |-> -1]

\* the variables of main while main is not modelled
MainOff ==
    /\ main_pc = "off" /\ args = NoArgs /\ yaml = NoYaml
    /\ settings = NoSettings /\ remote = {} /\ main_exit = -1
    /\ confirm = "none"

\* no is_vm_host call yet
NoProbe == [host |-> 0, vm |-> "none", vmi |-> "none", commands |-> 0]

ClassOff ==
    /\ probes = [h \in Hosts |-> 0] /\ kinds = [h \in Hosts |-> <<>>]
    /\ last_probe = NoProbe

NoTime == [classify |-> 0, attempts |-> 0, sleeps |-> 0]

TimedOff ==
    /\ tcall = IdleCall /\ tparams = [timeout |-> 0, retry_interval |-> 0]
    /\ tspent = NoTime

\* no command of run_fio_tests was built
NamesOff == artifact = <<>>

AuxOff == MainOff /\ ClassOff /\ TimedOff /\ NamesOff

(***************************************************************************)
(* SpecExec: every host is the target of one execute_command call made     *)
(* with the configured max_retries; the calls of different hosts           *)
(* interleave freely.                                                      *)
(***************************************************************************)
InitExec ==
    /\ \E t \in TransportConfigs, d \in BOOLEAN, m \in 0..MaxRetries :
         config = [BaseConfig EXCEPT !.use_virtctl = t.use_virtctl,
                                     !.namespace = t.namespace,
                                     !.dry_run = d, !.max_retries = m]
    /\ ex = [h \in Hosts |-> IdleCall]
    /\ PoolOff
    /\ MigOff
    /\ LaunchOff
    /\ DrvOff
    /\ HistOff
    /\ AuxOff

ExecBegin(h) ==
    /\ ex[h].pc = "idle"
    /\ \E vm \in Classifications(config) :
         ex' = [ex EXCEPT ![h] = execute_command_begin(
                    config, ex[h], config.max_retries, vm)]
    /\ UNCHANGED <<auxVars, histVars, config, poolVars, migVars, launchVars, drvVars>>

ExecAttempt(h) ==
    /\ ex[h].pc = "attempt"
    /\ \E o \in Outcomes :
         ex' = [ex EXCEPT ![h] = execute_command_attempt(ex[h], o)]
    /\ UNCHANGED <<auxVars, histVars, config, poolVars, migVars, launchVars, drvVars>>

ExecSlept(h) ==
    /\ ex[h].pc = "sleep"
    /\ ex' = [ex EXCEPT ![h] = execute_command_slept(ex[h])]
    /\ UNCHANGED <<auxVars, histVars, config, poolVars, migVars, launchVars, drvVars>>

NextExec ==
    \E h \in Hosts : ExecBegin(h) \/ ExecAttempt(h) \/ ExecSlept(h)

SpecExec == InitExec /\ [][NextExec]_vars

Called(h) == ex[h].pc # "idle" /\ ~config.dry_run /\ ex[h].max_retries >= 1

C2_RetryAfterNonZeroOrTimeout ==
    \A h \in Hosts :
        (Called(h) /\ ex[h].last \in {"nonzero", "timeout"}
                   /\ ex[h].attempt < ex[h].max_retries)
            => ex[h].pc = "sleep"

(***************************************************************************)
(* prepare_storage: five with-blocks, each a ThreadPoolExecutor with one   *)
(* worker per host.  The main thread submits execute_command for every     *)
(* host, reads the results in completion order (as_completed) and leaves   *)
(* the with-block through ThreadPoolExecutor.__exit__, which waits for     *)
(* every worker (shutdown(wait=True)), also when an exception propagates.  *)
(***************************************************************************)
Finished(e) == e.pc \in {"done", "raised"}

Range(f) == {f[i] : i \in 1..Len(f)}

\* __exit__ of the with-block returns at once, workers still running
PoolShutdownNoWait(exs) == TRUE

\* ThreadPoolExecutor.__exit__: shutdown(wait=True) joins every worker
PoolShutdownReady(exs) == \A h \in Hosts : Finished(exs[h])

\* a variant that treats formatting like unmounting (errors ignored)
ExitsOnFailureNotFormat(s) == s \in {2, 5}

\* a variant in which an unmount error ends the run too
ExitsOnFailureAlsoUnmount(s) == s \in {2, 3, 4, 5}

\* lines 850-852, 876-878, 891-893: sys.exit(1) on a failed result
ExitsOnFailure(s) == s \in MustSucceedSteps

\* the hosts whose call of the current step returned success
SucceededNow == {h \in Hosts : ex[h].pc = "done" /\ ex[h].success}

RecordStep ==
    IF step \in MustSucceedSteps
    THEN [succeeded EXCEPT ![step] = SucceededNow]
    ELSE succeeded

InitPrepare ==
    /\ \E t \in TransportConfigs, m \in 1..(MaxRetries - 1) :
         /\ t.use_virtctl # "None"
         /\ config = [BaseConfig EXCEPT !.use_virtctl = t.use_virtctl,
                                        !.namespace = t.namespace,
                                        !.max_retries = m]
    /\ ex = [h \in Hosts |-> IdleCall]
    /\ step = 1 /\ phase = "submit" /\ futures = <<>> /\ collected = {}
    /\ pending = "none" /\ exit_code = -1 /\ succeeded = NoneSucceeded
    /\ MigOff
    /\ LaunchOff
    /\ DrvOff
    /\ HistOff
    /\ AuxOff

\* for host in config.vm_hosts: futures.append(pool.submit(...))
PoolSubmit ==
    /\ phase = "submit"
    /\ Len(futures) < NumHosts
    /\ futures' = Append(futures, Len(futures) + 1)
    /\ phase' = IF Len(futures) + 1 = NumHosts THEN "collect" ELSE "submit"
    /\ UNCHANGED <<auxVars, histVars, config, ex, step, collected, pending, exit_code, succeeded, migVars, launchVars, drvVars>>

\* a pool worker starts the submitted execute_command(host, cmd, ...)
WorkerBegin(h) ==
    /\ h \in Range(futures)
    /\ ex[h].pc = "idle"
    /\ \E vm \in Classifications(config) :
         ex' = [ex EXCEPT ![h] = execute_command_begin(
                    config, ex[h], config.max_retries, vm)]
    /\ UNCHANGED <<auxVars, histVars, config, poolVars, migVars, launchVars, drvVars>>

\* for future in as_completed(futures): success, output = future.result()
PoolCollect(h) ==
    /\ phase = "collect"
    /\ h \in Range(futures) \ collected
    /\ Finished(ex[h])
    /\ IF ex[h].pc = "raised"
       THEN /\ phase' = "unwind" /\ pending' = ex[h].output
            /\ UNCHANGED collected
       ELSE IF ~ex[h].success /\ ExitsOnFailure(step)
       THEN /\ phase' = "unwind" /\ pending' = "SystemExit"
            /\ UNCHANGED collected
       ELSE /\ collected' = collected \cup {h}
            /\ UNCHANGED <<phase, pending>>
    /\ UNCHANGED <<auxVars, histVars, config, ex, step, futures, exit_code, succeeded, migVars, launchVars, drvVars>>

\* the last with-block of prepare_storage (5) and of cleanup_storage (9)
LastStep(s) == s \in {5, 9}

\* the as_completed loop ended: leave the with-block, go to the next step
PoolLeave ==
    /\ phase = "collect"
    /\ collected = Hosts
    /\ PoolShutdownReady(ex)
    /\ succeeded' = RecordStep
    /\ IF LastStep(step)
       THEN /\ phase' = "returned"
            /\ UNCHANGED <<step, ex, futures, collected>>
       ELSE /\ step' = step + 1
            /\ phase' = "submit"
            /\ ex' = [h \in Hosts |-> IdleCall]
            /\ futures' = <<>>
            /\ collected' = {}
    /\ UNCHANGED <<auxVars, histVars, config, pending, exit_code, migVars, launchVars, drvVars>>

\* SystemExit or ValueError leaves the with-block and ends the process
PoolUnwind ==
    /\ phase = "unwind"
    /\ PoolShutdownReady(ex)
    /\ succeeded' = RecordStep
    /\ phase' = "exited"
    /\ exit_code' = 1
    /\ UNCHANGED <<auxVars, histVars, config, ex, step, futures, collected, pending, migVars, launchVars, drvVars>>

NextPrepare ==
    \/ PoolSubmit
    \/ PoolLeave
    \/ PoolUnwind
    \/ \E h \in Hosts :
         WorkerBegin(h) \/ ExecAttempt(h) \/ ExecSlept(h) \/ PoolCollect(h)

SpecPrepare == InitPrepare /\ [][NextPrepare]_vars

\* the step's call for host h ended in failure (retries exhausted, timeout, raise)
FailedNow(h) == Finished(ex[h]) /\ ~(ex[h].pc = "done" /\ ex[h].success)

\* the main thread leaves the with-block of the current step in this transition
LeavesStep == (step' # step) \/ (phase' # phase /\ phase' \in {"returned", "exited"})

(***************************************************************************)
(* C3: every fleet-wide step dispatches the operation to every host even   *)
(* when some host's operation fails, and the step is left only after every *)
(* host has produced exactly one result (success or failure): when the     *)
(* main thread leaves the with-block, the futures list holds every host    *)
(* exactly once and every host's call has ended.                           *)
(***************************************************************************)
C3_OneResultPerHost ==
    [][LeavesStep =>
          /\ Len(futures) = NumHosts
          /\ \A h \in Hosts : Cardinality({i \in 1..Len(futures) : futures[i] = h}) = 1
          /\ \A h \in Hosts : Finished(ex[h])]_vars

\* a fatal step was left with one host failed and another host succeeded
C3_Witness ==
    /\ phase = "exited"
    /\ \E h \in Hosts : FailedNow(h)
    /\ \E h \in Hosts : ex[h].pc = "done" /\ ex[h].success
    /\ \A h \in Hosts : Finished(ex[h])

(***************************************************************************)
(* C10: in prepare_storage, if device validation, formatting or mounting   *)
(* ends in failure on any host, no later step is started and the run ends  *)
(* with a non-zero exit code; no format command is issued to any host      *)
(* unless validation succeeded on every host, and no mount command unless  *)
(* formatting succeeded on every host.                                     *)
(***************************************************************************)
C10_State ==
    /\ \A h \in Hosts :
         /\ (step = 4 /\ ex[h].invocations > 0) => succeeded[2] = Hosts
         /\ (step = 5 /\ ex[h].invocations > 0) => succeeded[4] = Hosts
    /\ phase = "returned" => \A s \in MustSucceedSteps : succeeded[s] = Hosts
    /\ phase = "exited" => exit_code = 1
    /\ (step \in MustSucceedSteps /\ \E h \in Hosts : FailedNow(h))
          => (phase = "exited" \/ ENABLED NextPrepare)

C10_MustSucceedAborts ==
    /\ []C10_State
    /\ [][(step \in MustSucceedSteps /\ \E h \in Hosts : FailedNow(h))
             => (step' = step /\ phase' \in {"submit", "collect", "unwind", "exited"}
                 /\ exit_code' \in {-1, 1})]_vars

\* formatting failed on one host after validation succeeded everywhere
C10_Witness ==
    /\ step = 4 /\ phase = "exited" /\ exit_code = 1
    /\ succeeded[2] = Hosts
    /\ succeeded[4] # Hosts /\ succeeded[4] # {}

(***************************************************************************)
(* collect_results and cleanup_storage, called one after the other by      *)
(* main: four more with-blocks of the same shape, none of which looks at   *)
(* the results.  Steps: 6 archive creation, 7 result copy and extraction   *)
(* (copy_results), 8 unmount, 9 removal of the result files.               *)
(***************************************************************************)
CollectSteps == 6..9
CopyStep == 7

\* copy_results, lines 1250-1252 and 1283-1284: get_scp_command, whose
\* ValueError is caught, then one subprocess.run
copy_results_begin(cfg, e, vm) ==
    LET e1 == [e EXCEPT !.max_retries = 1]
        form == get_ssh_command(cfg, vm)
    IN IF form = "raise"
       THEN Return(e1, FALSE, "ValueError")
       ELSE [e1 EXCEPT !.pc = "attempt", !.attempt = 1, !.transport = form]

InitCollect ==
    /\ \E t \in TransportConfigs, m \in 1..(MaxRetries - 1) :
         /\ t.use_virtctl # "None"
         /\ config = [BaseConfig EXCEPT !.use_virtctl = t.use_virtctl,
                                        !.namespace = t.namespace,
                                        !.max_retries = m]
    /\ ex = [h \in Hosts |-> IdleCall]
    /\ step = 6 /\ phase = "submit" /\ futures = <<>> /\ collected = {}
    /\ pending = "none" /\ exit_code = -1 /\ succeeded = NoneSucceeded
    /\ MigOff
    /\ LaunchOff
    /\ DrvOff
    /\ HistOff
    /\ AuxOff

\* a pool worker starts the submitted execute_command of steps 1-6, 8, 9
StepWorkerBegin(h) ==
    /\ step # CopyStep
    /\ WorkerBegin(h)

\* a pool worker starts the submitted copy_results(host, ...)
CopyBegin(h) ==
    /\ step = CopyStep
    /\ h \in Range(futures)
    /\ ex[h].pc = "idle"
    /\ \E vm \in Classifications(config) :
         ex' = [ex EXCEPT ![h] = copy_results_begin(config, ex[h], vm)]
    /\ UNCHANGED <<auxVars, histVars, config, poolVars, migVars, launchVars, drvVars>>

NextSteps ==
    \/ PoolSubmit
    \/ PoolLeave
    \/ PoolUnwind
    \/ \E h \in Hosts :
         \/ StepWorkerBegin(h) \/ CopyBegin(h)
         \/ ExecAttempt(h) \/ ExecSlept(h) \/ PoolCollect(h)

\* prepare_storage, or collect_results followed by cleanup_storage
SpecSteps == (InitPrepare \/ InitCollect) /\ [][NextSteps]_vars

\* the call of host h returned failure: retries exhausted or timeout
ReturnedFailure(h) == ex[h].pc = "done" /\ ~ex[h].success

(***************************************************************************)
(* C31: a failure (retries exhausted or timeout) of one host in a step     *)
(* that is not must-succeed (directory creation, unmount, archive          *)
(* creation, result copy and extraction, cleanup) marks only that host as  *)
(* failed: the failed result is read like any other, the step is left only *)
(* when every host's operation has ended, and the run goes on with the     *)
(* next step (or returns normally after the last one).                     *)
(***************************************************************************)
C31_State ==
    (step \notin MustSucceedSteps /\ phase \in {"unwind", "exited"})
        => (pending # "SystemExit" /\ \E h \in Hosts : ex[h].pc = "raised")

C31_FailureMarksOnlyThatHost ==
    /\ []C31_State
    /\ [][ /\ \A h \in Hosts :
                (step \notin MustSucceedSteps /\ phase = "collect"
                   /\ ReturnedFailure(h)
                   /\ h \notin collected /\ h \in collected')
                  => (phase' = "collect" /\ pending' = "none"
                      /\ exit_code' = -1 /\ ex' = ex)
           /\ (step \notin MustSucceedSteps /\ LeavesStep
                 /\ (\A h \in Hosts : ex[h].pc # "raised")
                 /\ (\E h \in Hosts : ReturnedFailure(h)))
                => /\ collected = Hosts
                   /\ \A h \in Hosts : Finished(ex[h])
                   /\ exit_code' = -1
                   /\ LastStep(step) => phase' = "returned"
                   /\ ~LastStep(step) =>
                         (step' = step + 1 /\ phase' = "submit")
         ]_vars

\* the run returned normally although the last cleanup step timed out on
\* one host and succeeded on another
C31_Witness ==
    /\ step = 9 /\ phase = "returned" /\ exit_code = -1
    /\ \E h \in Hosts : ReturnedFailure(h) /\ ex[h].last = "timeout"
    /\ \E h \in Hosts : ex[h].pc = "done" /\ ex[h].success

(***************************************************************************)
(* migrate_vms_during_test(config, pattern).                               *)
(* A migration command (virtctl migrate, timeout 600) ends "ok" (return    *)
(* code 0), "nonzero" or "exception" (TimeoutExpired included).            *)
(***************************************************************************)
MigOutcomes == {"ok", "nonzero", "exception"}

\* a retry pass that goes over every host again
PassListAll(pass) == vms_to_migrate

\* the list a pass works on
PassList(pass) == IF pass = 1 THEN vms_to_migrate ELSE failed_vms

SeqFilter(f, S) == SelectSeq(f, LAMBDA x : x \in S)

HostList == [i \in 1..NumHosts |-> i]

\* a coordinator that does not look at the namespace
NothingToMigrateNamespaceIgnored(cfg, pattern, vms) ==
    \/ cfg.migrate_workloads = {} \/ pattern \notin cfg.migrate_workloads
    \/ cfg.use_virtctl = "False"
    \/ vms = <<>>

\* lines 962-979: the cases in which nothing is migrated
NothingToMigrate(cfg, pattern, vms) ==
    \/ cfg.migrate_workloads = {} \/ pattern \notin cfg.migrate_workloads
    \/ cfg.use_virtctl = "False"
    \/ NamespaceUnset(cfg.namespace)
    \/ vms = <<>>

\* a coordinator that keeps retrying while failures remain
AfterPassRetryAgain(pass, failed, retry) ==
    IF pass = 1
    THEN IF failed # <<>> THEN "retry" ELSE "True"
    ELSE IF retry # <<>> THEN "retry" ELSE "True"

\* a coordinator that reports the first pass and ignores the retry's result
AfterPassFirstOnly(pass, failed, retry) ==
    IF pass = 1
    THEN IF failed # <<>> THEN "retry" ELSE "True"
    ELSE "False"

\* lines 1009, 1034-1043 and 1078, 1090-1099: what follows the end of a pass
AfterPass(pass, failed, retry) ==
    IF pass = 1
    THEN IF failed # <<>> THEN "retry" ELSE "True"
    ELSE IF retry # <<>> THEN "False" ELSE "True"

Sequential(cfg) == cfg.migrate_interval > 0

InitMigrate ==
    /\ \E t \in TransportConfigs, w \in {{}, {"randwrite"}}, i \in {0, 5} :
         config = [BaseConfig EXCEPT !.use_virtctl = t.use_virtctl,
                                     !.namespace = t.namespace,
                                     !.migrate_workloads = w,
                                     !.migrate_interval = i]
    /\ ex = [h \in Hosts |-> IdleCall]
    /\ PoolOff
    /\ mig_pc = "entry" /\ MigIdle
    /\ LaunchOff
    /\ DrvOff
    /\ HistOff
    /\ AuxOff

\* a list of VMs made of every configured host
EveryHost(p) == HostList

\* line 975: [h for h in config.vm_hosts if executor.is_vm_host(h)], where
\* p[h] is what is_vm_host(h) returned
ProxiedHosts(p) == SeqFilter(HostList, {h \in Hosts : p[h]})

\* lines 962-971 passed: line 975 classifies every host
ClassifiesHosts(cfg, pattern) == ~NothingToMigrate(cfg, pattern, HostList)

\* lines 962-981 and 1045: early returns, the list of VMs, the mode
MigEntry(pattern) ==
    /\ mig_pc = "entry"
    /\ \E p \in [Hosts -> Classifications(config)] :
         LET vms == ProxiedHosts(p)
         IN /\ kinds' = IF ClassifiesHosts(config, pattern)
                        THEN [h \in Hosts |-> <<p[h]>>]
                        ELSE kinds
            /\ IF NothingToMigrate(config, pattern, vms)
               THEN /\ mig_pc' = "returned" /\ mig_result' = "True"
                    /\ UNCHANGED <<vms_to_migrate, mig_idx>>
               ELSE /\ vms_to_migrate' = vms
                    /\ mig_result' = "none"
                    /\ IF Sequential(config)
                       THEN mig_pc' = "seq_issue" /\ mig_idx' = 1
                       ELSE mig_pc' = "par_submit" /\ mig_idx' = 0
    /\ mig_pattern' = pattern
    /\ UNCHANGED <<visited, launches, mig_calls, mid_sleep, mig_returned>>
    /\ UNCHANGED <<failed_vms, retry_failed, mig_pass, mig_collected,
                   mig_state, mig_attempts, mig_out, mig_sleeps>>
    /\ UNCHANGED <<mainVars, timedVars, nameVars, probes, last_probe>>
    /\ UNCHANGED <<config, ex, poolVars, launchVars, drvVars>>

\* the end of a pass: retry pass, or return
EndPass(failed, retry) ==
    LET nxt == AfterPass(mig_pass, failed, retry) IN
    IF nxt = "retry"
    THEN /\ mig_pass' = 2
         /\ mig_result' = "none"
         /\ IF Sequential(config)
            THEN mig_pc' = "seq_issue" /\ mig_idx' = 1
            ELSE mig_pc' = "par_submit" /\ mig_idx' = 0
    ELSE /\ mig_pc' = "returned"
         /\ mig_result' = nxt
         /\ UNCHANGED <<mig_pass, mig_idx>>

\* the failure lists after host h failed in the current pass
FailedAfter(h) == IF mig_pass = 1 THEN Append(failed_vms, h) ELSE failed_vms
RetryAfter(h) == IF mig_pass = 1 THEN retry_failed ELSE Append(retry_failed, h)

\* sequential mode, lines 986-993 and 1012-1019: subprocess.run is issued
SeqIssue ==
    /\ mig_pc = "seq_issue"
    /\ LET vm == PassList(mig_pass)[mig_idx] IN
         /\ mig_state' = [mig_state EXCEPT ![vm] = "running"]
         /\ mig_attempts' = [mig_attempts EXCEPT ![vm] = @ + 1]
    /\ mig_pc' = "seq_run"
    /\ UNCHANGED <<vms_to_migrate, failed_vms, retry_failed, mig_pass, mig_idx,
                   mig_collected, mig_out, mig_sleeps, mig_result>>
    /\ UNCHANGED <<auxVars, histVars, config, ex, poolVars, launchVars, drvVars>>

\* the for loop goes to the next host of the list, or the pass ends
SeqAdvance(failed, retry) ==
    IF mig_idx < Len(PassList(mig_pass))
    THEN /\ mig_pc' = "seq_issue" /\ mig_idx' = mig_idx + 1
         /\ UNCHANGED <<mig_pass, mig_result>>
    ELSE EndPass(failed, retry)

\* sequential mode, lines 994-1006 and 1020-1032: the command ended with o
SeqComplete(o) ==
    /\ mig_pc = "seq_run"
    /\ LET list == PassList(mig_pass)
           vm == list[mig_idx]
           failed == IF o = "ok" THEN failed_vms ELSE FailedAfter(vm)
           retry == IF o = "ok" THEN retry_failed ELSE RetryAfter(vm)
       IN /\ mig_out' = [mig_out EXCEPT ![vm][mig_pass] = o]
          /\ mig_state' = [mig_state EXCEPT ![vm] = "idle"]
          /\ failed_vms' = failed
          /\ retry_failed' = retry
          /\ IF o # "exception" /\ vm # list[Len(list)]
             THEN /\ mig_pc' = "seq_sleep"
                  /\ UNCHANGED <<mig_pass, mig_idx, mig_result>>
             ELSE SeqAdvance(failed, retry)
    /\ UNCHANGED <<vms_to_migrate, mig_attempts, mig_sleeps, mig_collected>>
    /\ UNCHANGED <<auxVars, histVars, config, ex, poolVars, launchVars, drvVars>>

\* sequential mode, lines 1002-1003 and 1028-1029: the interval sleep ended
SeqSlept ==
    /\ mig_pc = "seq_sleep"
    /\ mig_sleeps' = mig_sleeps + 1
    /\ SeqAdvance(failed_vms, retry_failed)
    /\ UNCHANGED <<vms_to_migrate, failed_vms, retry_failed, mig_state,
                   mig_collected, mig_attempts, mig_out>>
    /\ UNCHANGED <<auxVars, histVars, config, ex, poolVars, launchVars, drvVars>>

\* parallel mode, lines 1070 and 1081: pool.submit(migrate_vm, vm), in list order
ParSubmit ==
    /\ mig_pc = "par_submit"
    /\ LET list == PassList(mig_pass)
           vm == list[mig_idx + 1]
       IN /\ mig_state' = [mig_state EXCEPT ![vm] = "queued"]
          /\ mig_idx' = mig_idx + 1
          /\ mig_pc' = IF mig_idx + 1 = Len(list) THEN "par_collect" ELSE "par_submit"
    /\ UNCHANGED <<vms_to_migrate, failed_vms, retry_failed, mig_pass,
                   mig_collected, mig_attempts, mig_out, mig_sleeps, mig_result>>
    /\ UNCHANGED <<auxVars, histVars, config, ex, poolVars, launchVars, drvVars>>

\* parallel mode, lines 1047-1055: a pool worker issues the command for vm
ParIssue(vm) ==
    /\ mig_state[vm] = "queued"
    /\ mig_state' = [mig_state EXCEPT ![vm] = "running"]
    /\ mig_attempts' = [mig_attempts EXCEPT ![vm] = @ + 1]
    /\ UNCHANGED <<mig_pc, vms_to_migrate, failed_vms, retry_failed, mig_pass,
                   mig_idx, mig_collected, mig_out, mig_sleeps, mig_result>>
    /\ UNCHANGED <<auxVars, histVars, config, ex, poolVars, launchVars, drvVars>>

\* parallel mode, lines 1056-1066: migrate_vm returns (success, vm_name)
ParComplete(vm, o) ==
    /\ mig_state[vm] = "running"
    /\ mig_state' = [mig_state EXCEPT ![vm] = "done"]
    /\ mig_out' = [mig_out EXCEPT ![vm][mig_pass] = o]
    /\ UNCHANGED <<mig_pc, vms_to_migrate, failed_vms, retry_failed, mig_pass,
                   mig_idx, mig_collected, mig_attempts, mig_sleeps, mig_result>>
    /\ UNCHANGED <<auxVars, histVars, config, ex, poolVars, launchVars, drvVars>>

\* parallel mode, lines 1072-1075 and 1083-1086: as_completed yields vm's future
ParCollect(vm) ==
    /\ mig_pc = "par_collect"
    /\ vm \in Range(PassList(mig_pass)) \ mig_collected
    /\ mig_state[vm] = "done"
    /\ mig_collected' = mig_collected \cup {vm}
    /\ IF mig_out[vm][mig_pass] = "ok"
       THEN UNCHANGED <<failed_vms, retry_failed>>
       ELSE /\ failed_vms' = FailedAfter(vm)
            /\ retry_failed' = RetryAfter(vm)
    /\ UNCHANGED <<mig_pc, vms_to_migrate, mig_pass, mig_idx, mig_state,
                   mig_attempts, mig_out, mig_sleeps, mig_result>>
    /\ UNCHANGED <<auxVars, histVars, config, ex, poolVars, launchVars, drvVars>>

\* parallel mode: the with-block of the pass is left, every worker has ended
ParLeave ==
    /\ mig_pc = "par_collect"
    /\ mig_collected = Range(PassList(mig_pass))
    /\ \A h \in Hosts : mig_state[h] \in {"idle", "done"}
    /\ mig_state' = [h \in Hosts |-> "idle"]
    /\ mig_collected' = {}
    /\ EndPass(failed_vms, retry_failed)
    /\ UNCHANGED <<vms_to_migrate, failed_vms, retry_failed, mig_attempts,
                   mig_out, mig_sleeps>>
    /\ UNCHANGED <<auxVars, histVars, config, ex, poolVars, launchVars, drvVars>>

NextMigrate ==
    \/ \E pattern \in Patterns : MigEntry(pattern)
    \/ SeqIssue
    \/ \E o \in MigOutcomes : SeqComplete(o)
    \/ SeqSlept
    \/ ParSubmit
    \/ ParLeave
    \/ \E vm \in Hosts :
         \/ ParIssue(vm)
         \/ \E o \in MigOutcomes : ParComplete(vm, o)
         \/ ParCollect(vm)

SpecMigrate == InitMigrate /\ [][NextMigrate]_vars

Targeted(h) == h \in Range(vms_to_migrate)

(***************************************************************************)
(* C4: for every call of migrate_vms_during_test and every host, in        *)
(* sequential and in parallel mode, at most 2 migration commands are       *)
(* issued for that host, whatever the outcomes.                            *)
(***************************************************************************)
C4_AtMostTwoAttempts ==
    \A h \in Hosts : mig_attempts[h] <= 2

\* both modes reach a host that was migrated twice and failed twice
C4_Witness ==
    /\ mig_pc = "returned"
    /\ \E h \in Hosts : mig_attempts[h] = 2 /\ mig_out[h][2] = "exception"
    /\ \E h \in Hosts : mig_attempts[h] = 1

(***************************************************************************)
(* C5: when at least one host is migrated, migrate_vms_during_test returns *)
(* True if and only if every targeted host succeeded on its first attempt  *)
(* or, having failed the first, succeeded on its retry attempt; it returns *)
(* False exactly when some host failed both attempts.                      *)
(***************************************************************************)
C5_TrueIffAllSucceeded ==
    (mig_pc = "returned" /\ vms_to_migrate # <<>>) =>
        /\ mig_result \in {"True", "False"}
        /\ mig_result = "True" <=>
              \A h \in Hosts : Targeted(h) =>
                 \/ mig_out[h][1] = "ok"
                 \/ (mig_out[h][1] \in {"nonzero", "exception"} /\ mig_out[h][2] = "ok")
        /\ mig_result = "False" <=>
              \E h \in Hosts :
                 /\ Targeted(h)
                 /\ mig_out[h][1] \in {"nonzero", "exception"}
                 /\ mig_out[h][2] \in {"nonzero", "exception"}

\* True is returned after a retry that repaired a first-pass failure
C5_Witness ==
    /\ mig_pc = "returned" /\ mig_result = "True"
    /\ \E h \in Hosts : mig_out[h][1] = "nonzero" /\ mig_out[h][2] = "ok"
    /\ \E h \in Hosts : mig_out[h][1] = "ok"

(***************************************************************************)
(* CommandExecutor.execute_background: run_command, the body of the thread *)
(* started for one host.  A command is described by what run_command looks *)
(* at: whether it contains "fio", whether it contains "--runtime", whether *)
(* digits follow it (the regular expression matches) and their value.      *)
(***************************************************************************)
Commands ==
    {c \in [fio : BOOLEAN, has_runtime : BOOLEAN, matched : BOOLEAN,
            value : {0, 30, 40}] :
        /\ c.matched => c.has_runtime
        /\ ~c.matched => c.value = 0}

\* lines 229-240
use_nohup(c) ==
    \/ (c.has_runtime /\ c.matched /\ c.value > 30)
    \/ (c.fio /\ ~c.has_runtime)

\* lines 1115-1134: the command run_fio_tests builds ("--runtime=None" has no digits)
FioCommand(cfg) ==
    [fio |-> TRUE, has_runtime |-> TRUE, matched |-> cfg.test_runtime # 0,
     value |-> cfg.test_runtime]

\* the commands write_test_data and run_fio_tests launch, by configured runtime
LaunchCommands ==
    {FioCommand([test_runtime |-> t]) : t \in {30, 40}}

\* lines 292-293: thread = threading.Thread(target=run_command); thread.start()
StartThread == [NoThread EXCEPT !.pc = "started", !.state = "Starting"]

\* a check that takes a failed command for a running task
check_task_running_unless_seen_absent(e, running) ==
    \/ e.pc # "done"
    \/ ~e.success
    \/ running

\* lines 296-308: check_task_running from the result of its execute_command
check_task_running(e, running) ==
    /\ e.pc = "done" /\ e.success
    /\ e.output # ""        \* int("") raises ValueError: not running
    /\ running

\* a launcher that reports the failure before it has verified it
LaunchAfterCallReportsEarly(l, e, pidfound) ==
    IF e.pc = "raised" THEN [l EXCEPT !.pc = "raised"]
    ELSE IF ~l.use_nohup THEN [l EXCEPT !.pc = "done", !.state = "Completed"]
    ELSE IF e.success
    THEN IF pidfound /\ e.output # ""
         THEN [l EXCEPT !.pc = "done", !.state = "ConfirmedRunning", !.pid = TRUE]
         ELSE [l EXCEPT !.pc = "grace", !.branch = "ok"]
    ELSE [l EXCEPT !.pc = "grace", !.branch = "fail", !.state = "Failed"]

\* lines 262-290: the thread after its execute_command call returned e
LaunchAfterCall(l, e, pidfound) ==
    IF e.pc = "raised" THEN [l EXCEPT !.pc = "raised"]
    ELSE IF ~l.use_nohup THEN [l EXCEPT !.pc = "done", !.state = "Completed"]
    ELSE IF e.success
    THEN IF pidfound /\ e.output # ""
         THEN [l EXCEPT !.pc = "done", !.state = "ConfirmedRunning", !.pid = TRUE]
         ELSE [l EXCEPT !.pc = "grace", !.branch = "ok"]
    ELSE [l EXCEPT !.pc = "grace", !.branch = "fail"]

\* a thread that keeps probing while the job is running
LaunchAfterProbeWaitsForJob(l, e, running) ==
    IF running THEN [l EXCEPT !.pc = "grace"]
    ELSE [l EXCEPT !.pc = "done", !.state = "Failed"]

\* a launcher that takes a launch without process id for failed
LaunchAfterProbeNeedsPid(l, e, running) ==
    IF check_task_running(e, running) /\ l.branch = "fail"
    THEN [l EXCEPT !.pc = "done", !.state = "ConfirmedRunning", !.seen = "running"]
    ELSE [l EXCEPT !.pc = "done", !.state = "Failed",
                   !.seen = IF check_task_running(e, running) THEN "running"
                            ELSE "absent"]

\* lines 272-277 and 283-288: the thread after check_task_running returned
\* (seen: what the call returned)
LaunchAfterProbe(l, e, running) ==
    IF e.pc = "raised" THEN [l EXCEPT !.pc = "raised"]
    ELSE IF check_task_running(e, running)
    THEN [l EXCEPT !.pc = "done", !.state = "ConfirmedRunning", !.seen = "running"]
    ELSE IF l.branch = "ok"
    THEN [l EXCEPT !.pc = "done", !.state = "Unconfirmed", !.seen = "absent"]
    ELSE [l EXCEPT !.pc = "done", !.state = "Failed", !.seen = "absent"]

Step(l) == [l EXCEPT !.steps = @ + 1]

\* lines 252-262: one subprocess.run of the call at line 262 sends script_cmd
ScriptSent(l, started) ==
    IF l.use_nohup
    THEN [l EXCEPT !.sent = @ + 1, !.procs = @ + (IF started THEN 1 ELSE 0)]
    ELSE l

\* the call record of a thread lives until the call has returned to run_command
Kept(e) == IF Finished(e) THEN IdleCall ELSE e

\* the process on the host once the launch command was invoked
JobAfterInvocation(nohup, j, started, o) ==
    IF nohup
    THEN IF started THEN "running" ELSE j
    ELSE IF o = "timeout" /\ started THEN "running" ELSE "ended"

\* run_command starts: classification, then the first execute_command call
LaunchBegin(h) ==
    /\ launch[h].pc = "started"
    /\ \E vm \in Classifications(config) :
         LET nohup == use_nohup(fio_cmd)
             e == execute_command_begin(config, IdleCall, config.max_retries, vm)
             l == Step([launch[h] EXCEPT !.pc = "exec", !.use_nohup = nohup])
         IN /\ ex' = [ex EXCEPT ![h] = e]
            /\ launch' = [launch EXCEPT ![h] =
                             IF Finished(e) THEN LaunchAfterCall(l, e, FALSE) ELSE l]
            /\ job' = [job EXCEPT ![h] =
                          IF ~nohup /\ e.pc = "attempt" THEN "running" ELSE @]
    /\ UNCHANGED <<auxVars, histVars, config, fio_cmd, poolVars, migVars, drvVars>>

\* one attempt of the launch's execute_command (timeout 60 for the script)
LaunchAttempt(h) ==
    /\ launch[h].pc = "exec"
    /\ ex[h].pc = "attempt"
    /\ \E o \in Outcomes, started \in BOOLEAN, pidfound \in BOOLEAN :
         LET e == execute_command_attempt(ex[h], o)
             j == JobAfterInvocation(launch[h].use_nohup, job[h], started, o)
             l == ScriptSent(Step(launch[h]), started)
         IN /\ pidfound => j = "running"
            /\ ex' = [ex EXCEPT ![h] = Kept(e)]
            /\ job' = [job EXCEPT ![h] = j]
            /\ launch' = [launch EXCEPT ![h] =
                             IF Finished(e) THEN LaunchAfterCall(l, e, pidfound) ELSE l]
    /\ UNCHANGED <<auxVars, histVars, config, fio_cmd, poolVars, migVars, drvVars>>

\* the retry sleep of the launch's execute_command ended
LaunchRetrySlept(h) ==
    /\ launch[h].pc = "exec"
    /\ ex[h].pc = "sleep"
    /\ LET e == execute_command_slept(ex[h]) IN
         /\ ex' = [ex EXCEPT ![h] = Kept(e)]
         /\ launch' = [launch EXCEPT ![h] =
                          IF Finished(e) THEN LaunchAfterCall(Step(@), e, FALSE)
                          ELSE Step(@)]
         /\ job' = [job EXCEPT ![h] =
                       IF ~launch[h].use_nohup /\ e.pc = "attempt" THEN "running" ELSE @]
    /\ UNCHANGED <<auxVars, histVars, config, fio_cmd, poolVars, migVars, drvVars>>

\* lines 271-272, 282-283: time.sleep(3) ended, check_task_running is called
LaunchGraceSlept(h) ==
    /\ launch[h].pc = "grace"
    /\ \E vm \in Classifications(config) :
         LET e == execute_command_begin(config, IdleCall, 1, vm)
             l == Step([launch[h] EXCEPT !.pc = "probe"])
         IN /\ ex' = [ex EXCEPT ![h] = e]
            /\ launch' = [launch EXCEPT ![h] =
                             IF Finished(e) THEN LaunchAfterProbe(l, e, FALSE) ELSE l]
    /\ UNCHANGED <<auxVars, histVars, config, fio_cmd, job, poolVars, migVars, drvVars>>

\* the single attempt of check_task_running (max_retries=1, timeout 30)
LaunchProbe(h) ==
    /\ launch[h].pc = "probe"
    /\ ex[h].pc = "attempt"
    /\ \E o \in Outcomes :
         LET e == execute_command_attempt(ex[h], o) IN
         /\ ex' = [ex EXCEPT ![h] = Kept(e)]
         /\ launch' = [launch EXCEPT ![h] =
                          LaunchAfterProbe(Step(@), e, job[h] = "running")]
    /\ UNCHANGED <<auxVars, histVars, config, fio_cmd, job, poolVars, migVars, drvVars>>

\* the steps of the thread started for host h
LaunchThread(h) ==
    \/ LaunchBegin(h)
    \/ LaunchAttempt(h)
    \/ LaunchRetrySlept(h)
    \/ LaunchGraceSlept(h)
    \/ LaunchProbe(h)

\* the detached process on host h ends (it may also never end)
JobEnd(h) ==
    /\ job[h] = "running"
    /\ launch[h].use_nohup
    /\ job' = [job EXCEPT ![h] = "ended"]
    /\ UNCHANGED <<auxVars, histVars, config, ex, fio_cmd, launch, poolVars, migVars, drvVars>>

(***************************************************************************)
(* SpecLaunch: one execute_background call per host, all with the same     *)
(* command (as write_test_data and run_fio_tests make them).               *)
(***************************************************************************)
InitLaunch ==
    /\ \E t \in TransportConfigs, m \in {1, 2} :
         /\ t.use_virtctl # "None" /\ t.namespace # ""
         /\ config = [BaseConfig EXCEPT !.use_virtctl = t.use_virtctl,
                                        !.namespace = t.namespace,
                                        !.max_retries = m]
    /\ fio_cmd \in LaunchCommands
    /\ ex = [h \in Hosts |-> IdleCall]
    /\ LaunchIdle
    /\ PoolOff
    /\ MigOff
    /\ DrvOff
    /\ HistOff
    /\ AuxOff

\* execute_background(host, fio_cmd, ...) is called for host h
LaunchStart(h) ==
    /\ launch[h].pc = "idle"
    /\ launch' = [launch EXCEPT ![h] = StartThread]
    /\ UNCHANGED <<auxVars, histVars, config, ex, fio_cmd, job, poolVars, migVars, drvVars>>

NextLaunch ==
    \E h \in Hosts : LaunchStart(h) \/ LaunchThread(h) \/ JobEnd(h)

SpecLaunch == InitLaunch /\ [][NextLaunch]_vars

\* steps of a detached launch: begin, m attempts, m - 1 retry sleeps, grace, probe
LaunchStepBound(m) == 2 * m + 2

(***************************************************************************)
(* C7: for a command classified long-running, the launch (the thread       *)
(* execute_background starts) reaches a final outcome after a bounded      *)
(* number of steps that does not depend on whether or when the launched    *)
(* job terminates: it takes at most 2 * max_retries + 2 steps and is never *)
(* waiting for the job, so it finishes even if the job never ends.         *)
(***************************************************************************)
C7_LaunchBounded ==
    \A h \in Hosts :
        use_nohup(fio_cmd) =>
            /\ launch[h].steps <= LaunchStepBound(config.max_retries)
            /\ launch[h].pc \in {"started", "exec", "grace", "probe"}
                  => ENABLED LaunchThread(h)

\* a launch that used every step and ended while its job is still running
C7_Witness ==
    \E h \in Hosts :
        /\ use_nohup(fio_cmd)
        /\ launch[h].pc = "done"
        /\ launch[h].state = "ConfirmedRunning"
        /\ launch[h].steps = LaunchStepBound(config.max_retries)
        /\ config.max_retries >= 2
        /\ job[h] = "running"

(***************************************************************************)
(* run_fio_tests: the main thread.  One iteration per (block size,         *)
(* pattern) pair; the threads execute_background starts and the jobs they  *)
(* launch run beside it.  Time is counted in seconds from start_time; a    *)
(* status check takes no time or its whole timeout.                        *)
(***************************************************************************)
GraceBuffer == 60
CheckInterval == 10
ProbeTimeout == 30

ProbeDurations == {0, ProbeTimeout}

\* the nested loops the other way round: patterns outside, block sizes inside
IterationsPatternsOuter(cfg) ==
    [i \in 1..(Len(cfg.block_sizes) * Len(cfg.io_patterns)) |->
        <<cfg.block_sizes[((i - 1) % Len(cfg.block_sizes)) + 1],
          cfg.io_patterns[((i - 1) \div Len(cfg.block_sizes)) + 1]>>]

\* lines 1108, 1111: block sizes in the outer loop, patterns in the inner loop
Iterations(cfg) ==
    [i \in 1..(Len(cfg.block_sizes) * Len(cfg.io_patterns)) |->
        <<cfg.block_sizes[((i - 1) \div Len(cfg.io_patterns)) + 1],
          cfg.io_patterns[((i - 1) % Len(cfg.io_patterns)) + 1]>>]

CurrentPattern == Iterations(config)[iter][2]

\* a midpoint sleep of the whole runtime
WholeRuntime(cfg) == cfg.test_runtime

\* lines 1146-1147: half_runtime = test_runtime_int // 2
HalfRuntime(cfg) == cfg.test_runtime \div 2

\* a driver that opens the migration window for every pattern
MigrationAlways(cfg, pattern) == TRUE

\* line 1144: if pattern in config.migrate_workloads
MigrationConfigured(cfg, pattern) == pattern \in cfg.migrate_workloads

\* a deadline without the buffer
DeadlineWithoutBuffer(cfg, elapsed) == elapsed > cfg.test_runtime

\* line 1191: if elapsed > test_runtime_int + 60
DeadlinePassed(cfg, elapsed) == elapsed > cfg.test_runtime + GraceBuffer

\* a round that keeps all_done of the round before
StartRoundKeepsFlag(t) ==
    /\ since_start' = t
    /\ all_done' = all_done /\ running_count' = 0
    /\ drv_k' = 0 /\ drv_pc' = "probe_issue"

\* lines 1167-1169 and 1163: the locals at the top of a poll round
StartRound(t) ==
    /\ since_start' = t
    /\ all_done' = TRUE /\ running_count' = 0
    /\ drv_k' = 0 /\ drv_pc' = "probe_issue"

\* a run without runtime (fio runs inside the launch call), retried launches and
\* parallel migration; a run of 40 s (detached fio) with sequential migration;
\* a run without runtime over two block sizes
RunConfigs ==
    {[test_runtime |-> 0, max_retries |-> 2, migrate_interval |-> 0,
      block_sizes |-> <<"4k">>],
     [test_runtime |-> 40, max_retries |-> 1, migrate_interval |-> 5,
      block_sizes |-> <<"4k">>],
     [test_runtime |-> 0, max_retries |-> 1, migrate_interval |-> 0,
      block_sizes |-> <<"4k", "8k">>]}

InitRun ==
    /\ \E r \in RunConfigs :
         config = [BaseConfig EXCEPT !.use_virtctl = "True",
                                     !.namespace = "ns1",
                                     !.max_retries = r.max_retries,
                                     !.migrate_workloads = {"randwrite"},
                                     !.migrate_interval = r.migrate_interval,
                                     !.test_runtime = r.test_runtime,
                                     !.block_sizes = r.block_sizes,
                                     !.io_patterns = <<"read", "randwrite">>]
    /\ fio_cmd = FioCommand(config)
    /\ ex = [h \in Hosts |-> IdleCall]
    /\ LaunchIdle
    /\ PoolOff
    /\ MigOff
    /\ iter = 1 /\ drv_pc = "dispatch" /\ drv_k = 0 /\ drv_call = IdleCall
    /\ PollIdle
    /\ HistOff
    /\ AuxOff

\* lines 1138-1141: execute_background for the next host; a thread of the
\* iteration before that has not ended is no longer followed
DrvDispatch ==
    /\ drv_pc = "dispatch"
    /\ LET h == drv_k + 1 IN
         /\ launch' = [launch EXCEPT ![h] = StartThread]
         /\ ex' = [ex EXCEPT ![h] = IdleCall]
         /\ job' = [job EXCEPT ![h] = "none"]
         /\ drv_k' = IF h = NumHosts THEN 0 ELSE h
         /\ drv_pc' = IF h < NumHosts THEN "dispatch"
                      ELSE IF MigrationConfigured(config, CurrentPattern)
                      THEN "mig_sleep" ELSE "join"
         /\ visited' = IF drv_k = 0 THEN Append(visited, Iterations(config)[iter])
                       ELSE visited
         /\ launches' = [launches EXCEPT ![h] = @ + 1]
         /\ UNCHANGED <<mig_calls, mid_sleep, mig_returned, mig_pattern>>
    /\ UNCHANGED <<auxVars, config, fio_cmd, iter, drv_call, since_start,
                   all_done, running_count, result_files_exist, poolVars, migVars>>

\* lines 1150-1153: time.sleep(half_runtime) ended, migrate_vms_during_test is called
DrvMigSlept ==
    /\ drv_pc = "mig_sleep"
    /\ drv_pc' = "migrate"
    /\ mig_pc' = "entry"
    /\ mid_sleep' = HalfRuntime(config)
    /\ mig_calls' = mig_calls + 1
    /\ UNCHANGED <<visited, launches, mig_returned, mig_pattern>>
    /\ UNCHANGED <<vms_to_migrate, failed_vms, retry_failed, mig_pass, mig_idx,
                   mig_state, mig_collected, mig_attempts, mig_out, mig_sleeps,
                   mig_result>>
    /\ UNCHANGED <<auxVars, config, ex, launchVars, poolVars, iter, drv_k, drv_call,
                   since_start, all_done, running_count,
                   result_files_exist>>

\* a driver that gives up when the migration returned False
AfterMigrationChecked(result) == IF result = "False" THEN "raised" ELSE "join"

\* line 1153: the value migrate_vms_during_test returned is not read
AfterMigration(result) == "join"

\* line 1153: migrate_vms_during_test returned
DrvMigReturned ==
    /\ drv_pc = "migrate"
    /\ mig_pc = "returned"
    /\ drv_pc' = AfterMigration(mig_result)
    /\ mig_pc' = "off"
    /\ vms_to_migrate' = <<>> /\ failed_vms' = <<>> /\ retry_failed' = <<>>
    /\ mig_pass' = 1 /\ mig_idx' = 0
    /\ mig_state' = [h \in Hosts |-> "idle"]
    /\ mig_collected' = {}
    /\ mig_attempts' = [h \in Hosts |-> 0]
    /\ mig_out' = [h \in Hosts |-> <<"none", "none">>]
    /\ mig_sleeps' = 0
    /\ mig_result' = "none"
    /\ mig_returned' = mig_result
    /\ mig_pattern' = "none"
    /\ UNCHANGED <<visited, launches, mig_calls, mid_sleep>>
    /\ UNCHANGED <<auxVars, config, ex, launchVars, poolVars, iter, drv_k, drv_call,
                   since_start, all_done, running_count,
                   result_files_exist>>

\* lines 1156-1157: thread.join(timeout=10) returns, with the thread ended or
\* not; after the last one start_time is taken and the first round begins
DrvJoin ==
    /\ drv_pc = "join"
    /\ IF drv_k + 1 < NumHosts
       THEN /\ drv_k' = drv_k + 1
            /\ UNCHANGED <<drv_pc, since_start, all_done, running_count,
                           mig_returned>>
       ELSE /\ StartRound(0)
            /\ mig_returned' = "none"
    /\ UNCHANGED <<visited, launches, mig_calls, mid_sleep, mig_pattern>>
    /\ UNCHANGED <<auxVars, config, ex, launchVars, poolVars, migVars, iter, drv_call,
                   result_files_exist>>

\* the main thread's call returned e after d seconds with the job seen or not
AfterProbe(e, d, seen) ==
    LET running == check_task_running(e, seen)
        h == drv_k + 1
    IN /\ all_done' = (all_done /\ ~running)
       /\ running_count' = running_count + (IF running THEN 1 ELSE 0)
       /\ since_start' = since_start + d
       /\ drv_k' = IF h = NumHosts THEN 0 ELSE h
       /\ drv_pc' = IF h = NumHosts THEN "round_end" ELSE "probe_issue"

\* line 1175: check_task_running(host, ...) is called for the next host; the
\* ValueError of get_ssh_command is caught at line 1178
DrvProbeIssue ==
    /\ drv_pc = "probe_issue"
    /\ \E vm \in Classifications(config) :
         LET e == execute_command_begin(config, IdleCall, 1, vm) IN
         IF Finished(e)
         THEN /\ AfterProbe(e, 0, FALSE)
              /\ UNCHANGED drv_call
         ELSE /\ drv_call' = e
              /\ drv_pc' = "probing"
              /\ UNCHANGED <<drv_k, since_start, all_done, running_count>>
    /\ UNCHANGED <<auxVars, histVars, config, ex, launchVars, poolVars, migVars, iter,
                   result_files_exist>>

\* lines 300-308: the single attempt of the check ends after d seconds
DrvProbeComplete ==
    /\ drv_pc = "probing"
    /\ \E o \in Outcomes, d \in ProbeDurations :
         /\ o = "timeout" => d = ProbeTimeout
         /\ AfterProbe(execute_command_attempt(drv_call, o), d,
                       job[drv_k + 1] = "running")
    /\ drv_call' = IdleCall
    /\ UNCHANGED <<auxVars, histVars, config, ex, launchVars, poolVars, migVars, iter,
                   result_files_exist>>

\* lines 1186-1211: the end of a round: done, deadline, or another round
DrvRoundEnd ==
    /\ drv_pc = "round_end"
    /\ IF all_done
       THEN /\ drv_pc' = "settled"
            /\ UNCHANGED <<since_start, all_done, running_count,
                           drv_k, result_files_exist>>
       ELSE IF DeadlinePassed(config, since_start)
       THEN /\ drv_pc' = "check_issue"
            /\ result_files_exist' = 0
            /\ UNCHANGED <<since_start, all_done, running_count, drv_k>>
       ELSE /\ StartRound(since_start + CheckInterval)
            /\ UNCHANGED result_files_exist
    /\ UNCHANGED <<auxVars, histVars, config, ex, launchVars, poolVars, migVars, iter, drv_call>>

\* the result-file check of one host returned e after d seconds
AfterCheck(e, d, exists) ==
    LET h == drv_k + 1 IN
    /\ result_files_exist' =
          result_files_exist + (IF e.success /\ e.output # "" /\ exists THEN 1 ELSE 0)
    /\ since_start' = since_start + d
    /\ drv_k' = IF h = NumHosts THEN 0 ELSE h
    /\ drv_pc' = IF h = NumHosts THEN "settled" ELSE "check_issue"

\* line 1199: execute_command(host, check_cmd, max_retries=1, timeout=30) is
\* called; here the ValueError of get_ssh_command is not caught
DrvCheckIssue ==
    /\ drv_pc = "check_issue"
    /\ \E vm \in Classifications(config) :
         LET e == execute_command_begin(config, IdleCall, 1, vm) IN
         IF e.pc = "raised"
         THEN /\ drv_pc' = "raised"
              /\ UNCHANGED <<drv_call, drv_k, since_start, result_files_exist>>
         ELSE IF Finished(e)
         THEN /\ AfterCheck(e, 0, FALSE)
              /\ UNCHANGED drv_call
         ELSE /\ drv_call' = e
              /\ drv_pc' = "checking"
              /\ UNCHANGED <<drv_k, since_start, result_files_exist>>
    /\ UNCHANGED <<auxVars, histVars, config, ex, launchVars, poolVars, migVars, iter,
                   all_done, running_count>>

\* lines 1199-1201: the single attempt of the result-file check ends
DrvCheckComplete ==
    /\ drv_pc = "checking"
    /\ \E o \in Outcomes, d \in ProbeDurations, exists \in BOOLEAN :
         /\ o = "timeout" => d = ProbeTimeout
         /\ exists => o = "ok"
         /\ AfterCheck(execute_command_attempt(drv_call, o), d, exists)
    /\ drv_call' = IdleCall
    /\ UNCHANGED <<auxVars, histVars, config, ex, launchVars, poolVars, migVars, iter,
                   all_done, running_count>>

\* lines 1213-1216: the next iteration, or the end of run_fio_tests
DrvNext ==
    /\ drv_pc = "settled"
    /\ IF iter < Len(Iterations(config))
       THEN /\ iter' = iter + 1
            /\ drv_pc' = "dispatch"
            /\ drv_k' = 0
            /\ since_start' = 0 /\ all_done' = TRUE
            /\ running_count' = 0 /\ result_files_exist' = 0
            /\ launches' = [h \in Hosts |-> 0] /\ mig_calls' = 0 /\ mid_sleep' = -1
            /\ mig_returned' = "none"
            /\ UNCHANGED <<visited, mig_pattern>>
       ELSE /\ drv_pc' = "returned"
            /\ UNCHANGED histVars
            /\ UNCHANGED <<iter, drv_k, since_start, all_done,
                           running_count, result_files_exist>>
    /\ UNCHANGED <<auxVars, config, ex, launchVars, poolVars, migVars, drv_call>>

\* the steps of migrate_vms_during_test called for the current pattern
MigrateStep ==
    \/ MigEntry(CurrentPattern)
    \/ SeqIssue
    \/ \E o \in MigOutcomes : SeqComplete(o)
    \/ SeqSlept
    \/ ParSubmit
    \/ ParLeave
    \/ \E vm \in Hosts :
         \/ ParIssue(vm)
         \/ \E o \in MigOutcomes : ParComplete(vm, o)
         \/ ParCollect(vm)

NextRun ==
    \/ DrvDispatch
    \/ DrvMigSlept
    \/ MigrateStep
    \/ DrvMigReturned
    \/ DrvJoin
    \/ DrvProbeIssue
    \/ DrvProbeComplete
    \/ DrvRoundEnd
    \/ DrvCheckIssue
    \/ DrvCheckComplete
    \/ DrvNext
    \/ \E h \in Hosts : LaunchThread(h) \/ JobEnd(h)

SpecRun == InitRun /\ [][NextRun]_vars

\* the phase of the current iteration
Phase ==
    CASE drv_pc = "dispatch" -> "Dispatched"
      [] drv_pc \in {"mig_sleep", "migrate"} -> "MigrationWindow"
      [] drv_pc \in {"join", "probe_issue", "probing", "round_end",
                     "check_issue", "checking"} -> "Polling"
      [] drv_pc = "settled" -> "Settled"
      [] OTHER -> "None"

\* the commands of the run in flight on host h
LaunchInFlight(h) == launch[h].pc \in {"exec", "probe"} /\ ex[h].pc \in {"attempt", "sleep"}
MigrationInFlight(h) == mig_state[h] = "running"
CheckInFlight(h) == drv_pc \in {"probing", "checking"} /\ drv_k + 1 = h

InFlight(h) ==
    (IF LaunchInFlight(h) THEN 1 ELSE 0)
    + (IF MigrationInFlight(h) THEN 1 ELSE 0)
    + (IF CheckInFlight(h) THEN 1 ELSE 0)

(***************************************************************************)
(* C6: measured from the moment the poll loop of an iteration starts, the  *)
(* loop exits within test_runtime + the 60 s grace buffer + one 10 s poll  *)
(* interval, whatever the per-host status checks do: when the iteration is *)
(* settled, no more than that many seconds have passed since start_time.   *)
(***************************************************************************)
C6_ExitWithinBound ==
    drv_pc = "settled" =>
        since_start <= config.test_runtime + GraceBuffer + CheckInterval

(***************************************************************************)
(* C8: each iteration goes through Dispatched, then MigrationWindow (only  *)
(* when the pattern is configured for migration), then Polling, then       *)
(* Settled, in that order, and iteration i+1 is dispatched only after      *)
(* iteration i is Settled.                                                 *)
(***************************************************************************)
C8_PhaseOrder ==
    [][/\ Phase' # Phase =>
            \/ /\ Phase = "Dispatched" /\ Phase' = "MigrationWindow"
               /\ CurrentPattern \in config.migrate_workloads
            \/ /\ Phase = "Dispatched" /\ Phase' = "Polling"
               /\ CurrentPattern \notin config.migrate_workloads
            \/ Phase = "MigrationWindow" /\ Phase' = "Polling"
            \/ Phase = "Polling" /\ Phase' = "Settled"
            \/ Phase = "Settled" /\ Phase' = "Dispatched" /\ iter' = iter + 1
            \/ Phase = "Settled" /\ Phase' = "None" /\ iter = Len(Iterations(config))
       /\ iter' # iter => (Phase = "Settled" /\ Phase' = "Dispatched" /\ iter' = iter + 1)
       /\ Phase' = "Dispatched" /\ Phase # "Dispatched" => iter' = iter + 1]_vars

\* the second iteration is in its migration window, the migration has ended
C8_Witness ==
    /\ iter = 2 /\ drv_pc = "migrate" /\ mig_pc = "returned"
    /\ \E h \in Hosts : mig_attempts[h] > 0

(***************************************************************************)
(* C9: fleet-wide steps are strictly sequenced: every per-host operation   *)
(* of a step, the launch operations of an iteration included, has finished *)
(* before any operation of the next step (migration, status check, next    *)
(* launch) is issued, so no host has two operations of the run in flight   *)
(* at the same time.                                                       *)
(***************************************************************************)
C9_OneOperationPerHost ==
    \A h \in Hosts : InFlight(h) <= 1

\* position of x in the sequence f (0 when absent)
IndexOf(f, x) ==
    IF \E i \in 1..Len(f) : f[i] = x
    THEN CHOOSE i \in 1..Len(f) : f[i] = x
    ELSE 0

\* the pair p comes before the pair q in the configured cross-product
Before(cfg, p, q) ==
    \/ IndexOf(cfg.block_sizes, p[1]) < IndexOf(cfg.block_sizes, q[1])
    \/ /\ p[1] = q[1]
       /\ IndexOf(cfg.io_patterns, p[2]) < IndexOf(cfg.io_patterns, q[2])

(***************************************************************************)
(* C12: run_fio_tests performs exactly |block_sizes| x |io_patterns|       *)
(* iterations, block sizes in the outer loop and patterns in the inner     *)
(* loop in configured order, and starts exactly one background launch per  *)
(* configured host in each iteration.                                      *)
(***************************************************************************)
C12_CrossProductOnce ==
    /\ \A i \in 1..Len(visited) :
          /\ IndexOf(config.block_sizes, visited[i][1]) > 0
          /\ IndexOf(config.io_patterns, visited[i][2]) > 0
          /\ \A j \in 1..Len(visited) :
                i < j => Before(config, visited[i], visited[j])
    /\ drv_pc = "returned" =>
          Len(visited) = Len(config.block_sizes) * Len(config.io_patterns)
    /\ drv_pc \notin {"off", "dispatch"} => \A h \in Hosts : launches[h] = 1
    /\ drv_pc = "dispatch" =>
          \A h \in Hosts : launches[h] = (IF h <= drv_k THEN 1 ELSE 0)

\* a run over two block sizes and two patterns has returned
C12_Witness ==
    /\ drv_pc = "returned"
    /\ Len(visited) = 4
    /\ visited[2] = <<"4k", "randwrite">> /\ visited[3] = <<"8k", "read">>

(***************************************************************************)
(* C14: in an iteration whose pattern is listed in migrate_workloads the   *)
(* driver sleeps test_runtime // 2 seconds after starting the launches and *)
(* then calls migrate_vms_during_test exactly once, before polling starts; *)
(* in the other iterations there is no migration call and no midpoint      *)
(* sleep.                                                                  *)
(***************************************************************************)
C14_MidpointMigrationOnce ==
    /\ mig_calls <= 1
    /\ mig_pc # "off" => (drv_pc = "migrate" /\ mig_calls = 1)
    /\ drv_pc \in {"mig_sleep", "migrate"} =>
          (CurrentPattern \in config.migrate_workloads
           /\ \A h \in Hosts : launches[h] = 1)
    /\ Phase \in {"Polling", "Settled"} =>
          IF CurrentPattern \in config.migrate_workloads
          THEN mig_calls = 1 /\ mid_sleep = config.test_runtime \div 2
          ELSE mig_calls = 0 /\ mid_sleep = -1

\* polling of a migration iteration of a 40 s test, after a 20 s midpoint sleep
C14_Witness ==
    /\ Phase = "Polling"
    /\ CurrentPattern \in config.migrate_workloads
    /\ mig_calls = 1 /\ mid_sleep = 20 /\ mig_pc = "off"

(***************************************************************************)
(* C13: when the launch command succeeds but no process id can be parsed   *)
(* from its output, the launcher waits the 3 s grace interval and then     *)
(* makes one liveness probe; if the probe reports the process running, the *)
(* job is ConfirmedRunning with no PID recorded and no failure is logged.  *)
(***************************************************************************)
C13_State ==
    \A h \in Hosts :
        launch[h].branch = "ok" =>
            /\ launch[h].pc \in {"grace", "probe", "done"}
            /\ ~launch[h].pid
            /\ launch[h].pc = "grace" => (ex[h].pc = "idle" /\ launch[h].seen = "none")
            /\ launch[h].pc = "probe" =>
                  (ex[h].max_retries = 1 /\ ex[h].invocations = 0
                   /\ launch[h].seen = "none")
            /\ launch[h].pc = "done" =>
                  /\ launch[h].state # "Failed"
                  /\ launch[h].seen = "running" <=> launch[h].state = "ConfirmedRunning"
                  /\ launch[h].seen = "absent" <=> launch[h].state = "Unconfirmed"

C13_ProbeResolvesMissingPid ==
    /\ []C13_State
    /\ [][\A h \in Hosts :
            (launch[h].branch = "ok" /\ launch'[h] # launch[h]) =>
                \/ launch[h].pc = "grace" /\ launch'[h].pc \in {"probe", "done"}
                \/ launch[h].pc = "probe" /\ launch'[h].pc = "done"
                \/ launch'[h].pc = "started"]_vars

\* a launch without process id that the probe confirmed
C13_Witness ==
    \E h \in Hosts :
        /\ launch[h].branch = "ok" /\ launch[h].pc = "done"
        /\ launch[h].state = "ConfirmedRunning" /\ ~launch[h].pid
        /\ launch[h].seen = "running"

(***************************************************************************)
(* C19: a liveness probe that fails, times out or returns unparsable       *)
(* output counts as "not running" after its single attempt and is never    *)
(* retried; every round probes each host with exactly one bounded attempt, *)
(* so a host whose probes always fail cannot keep the poll loop running.   *)
(***************************************************************************)
C19_State ==
    /\ drv_pc = "probing" =>
          /\ drv_call.pc = "attempt"
          /\ drv_call.max_retries = 1 /\ drv_call.attempt = 1
          /\ drv_call.invocations = 0
          /\ \A o \in Outcomes :
                LET e == execute_command_attempt(drv_call, o) IN
                /\ Finished(e) /\ e.invocations = 1
                /\ (o # "ok") => ~check_task_running(e, TRUE)
    /\ drv_pc \in {"probe_issue", "probing", "round_end"} =>
          /\ all_done <=> running_count = 0
          /\ running_count <= (IF drv_pc = "round_end" THEN NumHosts ELSE drv_k)

C19_FailedProbeIsNotRunning ==
    /\ []C19_State
    /\ [][ /\ drv_pc = "probing" /\ drv_pc' # drv_pc =>
                /\ drv_call' = IdleCall
                /\ drv_pc' = (IF drv_k + 1 = NumHosts THEN "round_end" ELSE "probe_issue")
                /\ drv_k' = (IF drv_k + 1 = NumHosts THEN 0 ELSE drv_k + 1)
                /\ since_start' - since_start <= ProbeTimeout
                /\ running_count' > running_count => job[drv_k + 1] = "running"
           /\ drv_pc = "probe_issue" /\ drv_pc' # drv_pc =>
                drv_pc' \in {"probing", "round_end"}
           /\ (drv_pc = "round_end" /\ all_done /\ drv_pc' # drv_pc) =>
                drv_pc' = "settled" ]_vars

\* a round in which every job runs and no probe saw it has just ended
C19_Witness ==
    /\ drv_pc = "round_end" /\ all_done
    /\ since_start >= ProbeTimeout
    /\ \A h \in Hosts : job[h] = "running"

(***************************************************************************)
(* C20: when a round found a host still running and more than              *)
(* test_runtime + 60 seconds have elapsed, polling stops and the artifact  *)
(* check runs once on every host; whether all artifacts exist or not, the  *)
(* iteration ends and the next one begins.                                 *)
(***************************************************************************)
C20_State ==
    /\ drv_pc \in {"check_issue", "checking"} =>
          /\ ~all_done
          /\ since_start > config.test_runtime + 60
          /\ result_files_exist <= drv_k
    /\ drv_pc = "checking" =>
          /\ drv_call.max_retries = 1 /\ drv_call.attempt = 1
    /\ drv_pc = "settled" =>
          /\ ENABLED DrvNext
          /\ result_files_exist <= NumHosts
          /\ ~all_done => since_start > config.test_runtime + 60

C20_DeadlineFallback ==
    /\ []C20_State
    /\ [][ /\ (drv_pc = "round_end" /\ ~all_done /\ drv_pc' # drv_pc) =>
                IF since_start > config.test_runtime + 60
                THEN drv_pc' = "check_issue" /\ drv_k' = 0 /\ result_files_exist' = 0
                ELSE drv_pc' = "probe_issue" /\ since_start' = since_start + 10
           /\ (drv_pc \in {"check_issue", "checking"} /\ drv_k' # drv_k) =>
                /\ drv_k' = (IF drv_k + 1 = NumHosts THEN 0 ELSE drv_k + 1)
                /\ drv_pc' = (IF drv_k + 1 = NumHosts THEN "settled" ELSE "check_issue")
           /\ (drv_pc \in {"check_issue", "checking"} /\ drv_pc' # drv_pc) =>
                drv_pc' \in {"check_issue", "checking", "settled"}
           /\ (drv_pc = "settled" /\ drv_pc' # drv_pc) =>
                drv_pc' \in {"dispatch", "returned"} ]_vars

\* the fallback found the result file of one host only, and another iteration
\* is still to come
C20_Witness ==
    /\ drv_pc = "settled" /\ ~all_done
    /\ since_start > config.test_runtime + 60
    /\ result_files_exist = 1
    /\ iter < Len(Iterations(config))

\* lines 226-294: the launch thread of host h has been started and its
\* run_command has not returned
LaunchAlive(h) == launch[h].pc \in {"started", "exec", "grace", "probe"}

\* the threads of the run that work on a host: launch threads and the workers
\* of the migration
WorkersInFlight ==
    Cardinality({h \in Hosts : LaunchAlive(h)})
    + Cardinality({h \in Hosts : MigrationInFlight(h)})

(***************************************************************************)
(* C16: the number of per-host operations in flight at once (launch        *)
(* threads, pool workers, parallel migration workers) never exceeds the    *)
(* number of configured hosts.                                             *)
(***************************************************************************)
C16_InFlightWithinHosts == WorkersInFlight <= NumHosts

(***************************************************************************)
(* SpecTimed: one execute_command call with its durations in seconds.  The *)
(* call first builds the transport command (get_ssh_command, line 180),    *)
(* which in auto-detect mode runs the two control-plane probes of          *)
(* is_vm_host, each with timeout 10; then the attempts, each bounded by    *)
(* the per-attempt timeout, and the retry sleeps.                          *)
(***************************************************************************)
ClassifyTimeout == 10

\* the timeouts callers pass (lines 300 and 262) and retry intervals
AttemptTimeouts == {30, 60}
RetryIntervals == {1, 5}

\* lines 99-116: the durations a control-plane probe with outcome p can have
ClassifyDurations(p) ==
    CASE p = "timeout" -> {ClassifyTimeout}
      [] p = "missing" -> {0}
      [] OTHER         -> {0, ClassifyTimeout}

\* lines 88-116: seconds is_vm_host takes with probe outcomes p1, p2 that
\* last d1, d2
is_vm_host_seconds(cfg, p1, d1, d2) ==
    IF cfg.use_virtctl # "None" \/ NamespaceUnset(cfg.namespace) THEN 0
    ELSE IF p1 = "notfound" THEN d1 + d2
    ELSE d1

InitTimed ==
    /\ \E t \in TransportConfigs, d \in BOOLEAN, m \in 1..MaxRetries :
         config = [BaseConfig EXCEPT !.use_virtctl = t.use_virtctl,
                                     !.namespace = t.namespace,
                                     !.dry_run = d, !.max_retries = m]
    /\ \E t \in AttemptTimeouts, r \in RetryIntervals :
         tparams = [timeout |-> t, retry_interval |-> r]
    /\ tcall = IdleCall
    /\ tspent = NoTime
    /\ ex = [h \in Hosts |-> IdleCall]
    /\ PoolOff
    /\ MigOff
    /\ LaunchOff
    /\ DrvOff
    /\ HistOff
    /\ MainOff
    /\ ClassOff
    /\ NamesOff

\* lines 166-180: the call up to the first attempt
TimedBegin ==
    /\ tcall.pc = "idle"
    /\ \E p1 \in ProbeOutcomes, p2 \in ProbeOutcomes :
         \E d1 \in ClassifyDurations(p1), d2 \in ClassifyDurations(p2) :
            /\ tcall' = execute_command_begin(config, tcall, config.max_retries,
                                              is_vm_host(config, p1, p2))
            /\ tspent' = [tspent EXCEPT !.classify =
                             IF config.dry_run THEN 0
                             ELSE is_vm_host_seconds(config, p1, d1, d2)]
    /\ UNCHANGED <<mainVars, classVars, nameVars, tparams, histVars, config, ex, poolVars,
                   migVars, launchVars, drvVars>>

\* lines 183-220: one subprocess.run(..., timeout=cmd_timeout) lasting d seconds
TimedAttempt ==
    /\ tcall.pc = "attempt"
    /\ \E o \in Outcomes, d \in {0, tparams.timeout} :
         /\ o = "timeout" => d = tparams.timeout
         /\ tcall' = execute_command_attempt(tcall, o)
         /\ tspent' = [tspent EXCEPT !.attempts = @ + d]
    /\ UNCHANGED <<mainVars, classVars, nameVars, tparams, histVars, config, ex, poolVars,
                   migVars, launchVars, drvVars>>

\* lines 202, 217: time.sleep(retry_interval)
TimedSlept ==
    /\ tcall.pc = "sleep"
    /\ tcall' = execute_command_slept(tcall)
    /\ tspent' = [tspent EXCEPT !.sleeps = @ + tparams.retry_interval]
    /\ UNCHANGED <<mainVars, classVars, nameVars, tparams, histVars, config, ex, poolVars,
                   migVars, launchVars, drvVars>>

NextTimed == TimedBegin \/ TimedAttempt \/ TimedSlept

SpecTimed == InitTimed /\ [][NextTimed]_vars

\* the bound of the claim for the call
BlockBound == config.max_retries * (tparams.timeout + tparams.retry_interval)

MaxClassifications == 2

\* lines 90-116: does the call reach subprocess.run(["oc", "get", "vm", ...])
\* and start it?  (FileNotFoundError: no oc binary, nothing was issued)
ProbeIssued(cfg, p1) ==
    /\ cfg.use_virtctl = "None"
    /\ ~NamespaceUnset(cfg.namespace)
    /\ p1 # "missing"

\* lines 90-116: what a call of is_vm_host meets: the outcome of the VM
\* probe, of the VMI probe (run only after a VM probe that returned non-zero)
\* and the number of commands that were started
ProbeRecord(cfg, h, p1, p2) ==
    IF cfg.use_virtctl # "None" \/ NamespaceUnset(cfg.namespace)
    THEN [NoProbe EXCEPT !.host = h]
    ELSE IF p1 # "notfound"
    THEN [host |-> h, vm |-> p1, vmi |-> "none",
          commands |-> IF p1 = "missing" THEN 0 ELSE 1]
    ELSE [host |-> h, vm |-> p1, vmi |-> p2,
          commands |-> IF p2 = "missing" THEN 1 ELSE 2]

InitClassify ==
    /\ \E t \in TransportConfigs :
         config = [BaseConfig EXCEPT !.use_virtctl = t.use_virtctl,
                                     !.namespace = t.namespace]
    /\ probes = [h \in Hosts |-> 0]
    /\ kinds = [h \in Hosts |-> <<>>]
    /\ last_probe = NoProbe
    /\ ex = [h \in Hosts |-> IdleCall]
    /\ PoolOff
    /\ MigOff
    /\ LaunchOff
    /\ DrvOff
    /\ HistOff
    /\ MainOff
    /\ TimedOff
    /\ NamesOff

\* lines 88-116: one call of is_vm_host(h)
Classify(h) ==
    /\ Len(kinds[h]) < MaxClassifications
    /\ \E p1 \in ProbeOutcomes, p2 \in ProbeOutcomes :
         /\ kinds' = [kinds EXCEPT ![h] = Append(@, is_vm_host(config, p1, p2))]
         /\ probes' = [probes EXCEPT ![h] =
                          @ + (IF ProbeIssued(config, p1) THEN 1 ELSE 0)]
         /\ last_probe' = ProbeRecord(config, h, p1, p2)
    /\ UNCHANGED <<mainVars, timedVars, nameVars, histVars, config, ex, poolVars,
                   migVars, launchVars, drvVars>>

\* line 120: get_ssh_command, for a command on h
ClassifyForCommand(h) == Classify(h)

\* line 144: get_scp_command, for a file transfer from h
ClassifyForTransfer(h) == Classify(h)

\* line 975: the list of VMs to migrate
ClassifyForMigration(h) == Classify(h)

NextClassify ==
    \E h \in Hosts :
        \/ ClassifyForCommand(h)
        \/ ClassifyForTransfer(h)
        \/ ClassifyForMigration(h)

SpecClassify == InitClassify /\ [][NextClassify]_vars

(***************************************************************************)
(* C18: the transport kind of a host is resolved once and cached for the   *)
(* run: the control plane is probed at most once per host, and every later *)
(* classification of the host returns the same kind as the first.          *)
(***************************************************************************)
C18_ResolvedOnce ==
    \A h \in Hosts :
        /\ probes[h] <= 1
        /\ \A i \in 1..Len(kinds[h]) : kinds[h][i] = kinds[h][1]

(***************************************************************************)
(* SpecMain: main() from the parsed command line to its exit code.         *)
(*   args: --dry-run, --interval, --max-retries, --monitor-interval        *)
(*         (-1: option not given)                                          *)
(*   yaml: the host source of the vm section ("pattern", "labels",         *)
(*         "labels_list": labels and a hosts list, "file", "list",         *)
(*         "none"), whether the required sections are present, and the     *)
(*         retry and monitoring values                                     *)
(*   remote: "label_query" (oc get vms -l), "command", "probe",            *)
(*         "migration", "transfer"                                         *)
(***************************************************************************)
HostSources == {"pattern", "labels", "labels_list", "file", "list", "none"}

\* the values of the sections retry and monitoring of the file
YamlValues == [interval |-> 5, max_retries |-> 3, task_monitor_interval |-> 30]

\* values given on the command line, or -1
ArgValues ==
    [dry_run : BOOLEAN, interval : {-1, 1}, max_retries : {-1, 2},
     monitor_interval : {-1, 3}, prepare_machine : BOOLEAN,
     yes_i_mean_it : BOOLEAN]

\* lines 631-643: the command-line values are stored in the configuration
ApplyArgs(s, a) ==
    [s EXCEPT !.retry_interval = IF a.interval # -1 THEN a.interval ELSE @,
              !.max_retries = IF a.max_retries # -1 THEN a.max_retries ELSE @,
              !.task_monitor_interval =
                  IF a.monitor_interval # -1 THEN a.monitor_interval ELSE @]

\* lines 418, 423 and 436: load_config assigns the values of the file
LoadSettings(s, y) ==
    [s EXCEPT !.retry_interval = y.interval,
              !.max_retries = y.max_retries,
              !.task_monitor_interval = y.task_monitor_interval]

\* line 1164: check_interval = 10, whatever config.task_monitor_interval is
check_interval(s) == CheckInterval

\* lines 458-536: _get_vm_hosts finds hosts ("hosts"), or calls sys.exit(1)
\* ("exit"); queried: the label query was issued, found: it returned names
get_vm_hosts(cfg, y, queried, found) ==
    IF y.hosts = "pattern" THEN "hosts"
    ELSE IF y.hosts \in {"labels", "labels_list"} /\ cfg.use_virtctl = "False"
    THEN "exit"
    ELSE IF y.hosts \in {"labels", "labels_list"} /\ queried /\ found
    THEN "hosts"
    ELSE IF y.hosts \in {"labels_list", "file", "list"} THEN "hosts"
    ELSE "exit"

\* line 489: the label query is made only outside dry-run mode
LabelQueryMade(cfg, y) ==
    /\ y.hosts \in {"labels", "labels_list"}
    /\ cfg.use_virtctl # "False"
    /\ ~cfg.dry_run

\* the kinds of remote operations of a stage that runs commands on the hosts
CommandKinds(cfg) ==
    {"command"} \cup
    (IF cfg.use_virtctl = "None" /\ ~NamespaceUnset(cfg.namespace)
     THEN {"probe"} ELSE {})

InitMain ==
    /\ args \in ArgValues
    /\ \E t \in {c \in TransportConfigs : c.namespace # ""} :
         config = [BaseConfig EXCEPT !.use_virtctl = t.use_virtctl,
                                     !.namespace = t.namespace,
                                     !.dry_run = args.dry_run,
                                     !.migrate_workloads = {"randwrite"},
                                     !.io_patterns = <<"read", "randwrite">>]
    /\ \E src \in HostSources, v \in BOOLEAN :
         yaml = [hosts |-> src, valid |-> v,
                 interval |-> YamlValues.interval,
                 max_retries |-> YamlValues.max_retries,
                 task_monitor_interval |-> YamlValues.task_monitor_interval]
    /\ main_pc = "start"
    /\ settings = NoSettings
    /\ remote = {}
    /\ main_exit = -1
    /\ confirm = "none"
    /\ ex = [h \in Hosts |-> IdleCall]
    /\ PoolOff
    /\ MigOff
    /\ LaunchOff
    /\ DrvOff
    /\ HistOff
    /\ ClassOff
    /\ TimedOff
    /\ NamesOff

MainRest == <<classVars, timedVars, nameVars, histVars, config, ex, poolVars, migVars,
              launchVars, drvVars>>

\* sys.exit(code) or return code
MainEnds(code) ==
    /\ main_pc' = (IF code = 0 THEN "returned" ELSE "exited")
    /\ main_exit' = code

\* lines 621-643: the configuration object is filled from the command line
MainApplyArgs ==
    /\ main_pc = "start"
    /\ settings' = ApplyArgs(settings, args)
    /\ main_pc' = "load"
    /\ UNCHANGED <<confirm, args, yaml, remote, main_exit>>
    /\ UNCHANGED MainRest

\* lines 646-647 and 317-456: load_config
MainLoadConfig ==
    /\ main_pc = "load"
    /\ \E found \in BOOLEAN :
         LET queried == LabelQueryMade(config, yaml)
             hosts == get_vm_hosts(config, yaml, queried, found)
         IN /\ remote' = remote \cup (IF queried THEN {"label_query"} ELSE {})
            /\ IF hosts = "exit" \/ ~yaml.valid
               THEN /\ MainEnds(1)
                    /\ UNCHANGED settings
               ELSE /\ settings' = LoadSettings(settings, yaml)
                    /\ main_pc' = "deps"
                    /\ UNCHANGED main_exit
    /\ UNCHANGED <<confirm, args, yaml>>
    /\ UNCHANGED MainRest

\* lines 553-581: check_dependencies looks for the local tools
MainCheckDependencies ==
    /\ main_pc = "deps"
    /\ \E missing \in BOOLEAN :
         IF missing /\ ~config.dry_run
         THEN MainEnds(1)
         ELSE main_pc' = "gate" /\ UNCHANGED main_exit
    /\ UNCHANGED <<confirm, args, yaml, settings, remote>>
    /\ UNCHANGED MainRest

\* lines 701-710: the dry run ends here
MainDryRunReturn ==
    /\ main_pc = "gate"
    /\ config.dry_run
    /\ MainEnds(0)
    /\ UNCHANGED <<confirm, args, yaml, settings, remote>>
    /\ UNCHANGED MainRest

\* lines 713-727: --prepare-machine installs the dependencies and returns
MainPrepareMachine ==
    /\ main_pc = "gate"
    /\ ~config.dry_run
    /\ args.prepare_machine
    /\ remote' = remote \cup CommandKinds(config)
    /\ MainEnds(0)
    /\ UNCHANGED <<confirm, args, yaml, settings>>
    /\ UNCHANGED MainRest

\* what the operator can type at the prompt
Answers == {"yes", "YES", "y", "no", ""}

\* a prompt that takes "y" for a yes
ConfirmedLoosely(answer) == answer \in {"yes", "y"}

\* line 739: if confirm != "yes": return 0
Confirmed(answer) == answer = "yes"

\* lines 729-742: the confirmation prompt, skipped with --yes-i-mean-it
MainConfirm ==
    /\ main_pc = "gate"
    /\ ~config.dry_run
    /\ ~args.prepare_machine
    /\ IF args.yes_i_mean_it
       THEN /\ main_pc' = "prepare"
            /\ UNCHANGED <<main_exit, confirm>>
       ELSE \E answer \in Answers :
              /\ confirm' = answer
              /\ IF Confirmed(answer)
                 THEN main_pc' = "prepare" /\ UNCHANGED main_exit
                 ELSE MainEnds(0)
    /\ UNCHANGED <<args, yaml, settings, remote>>
    /\ UNCHANGED MainRest

\* line 748: prepare_storage, which exits with code 1 when a step fails
MainPrepareStorage ==
    /\ main_pc = "prepare"
    /\ remote' = remote \cup CommandKinds(config)
    /\ \E failed \in BOOLEAN :
         IF failed THEN MainEnds(1)
         ELSE main_pc' = "write" /\ UNCHANGED main_exit
    /\ UNCHANGED <<confirm, args, yaml, settings>>
    /\ UNCHANGED MainRest

\* line 751: write_test_data
MainWriteData ==
    /\ main_pc = "write"
    /\ remote' = remote \cup CommandKinds(config)
    /\ main_pc' = "tests"
    /\ UNCHANGED <<confirm, args, yaml, settings, main_exit>>
    /\ UNCHANGED MainRest

\* line 754: run_fio_tests, with the migrations of the configured patterns
MainRunTests ==
    /\ main_pc = "tests"
    /\ remote' = remote \cup CommandKinds(config) \cup
                   (IF \E i \in 1..Len(Iterations(config)) :
                          MigrationConfigured(config, Iterations(config)[i][2])
                    THEN {"migration"} ELSE {})
    /\ main_pc' = "collect"
    /\ UNCHANGED <<confirm, args, yaml, settings, main_exit>>
    /\ UNCHANGED MainRest

\* line 767: collect_results copies the result files
MainCollect ==
    /\ main_pc = "collect"
    /\ remote' = remote \cup CommandKinds(config) \cup {"transfer"}
    /\ main_pc' = "cleanup"
    /\ UNCHANGED <<confirm, args, yaml, settings, main_exit>>
    /\ UNCHANGED MainRest

\* lines 770-774: cleanup_storage, return 0
MainCleanup ==
    /\ main_pc = "cleanup"
    /\ remote' = remote \cup CommandKinds(config)
    /\ MainEnds(0)
    /\ UNCHANGED <<confirm, args, yaml, settings>>
    /\ UNCHANGED MainRest

NextMain ==
    \/ MainApplyArgs
    \/ MainLoadConfig
    \/ MainCheckDependencies
    \/ MainDryRunReturn
    \/ MainPrepareMachine
    \/ MainConfirm
    \/ MainPrepareStorage
    \/ MainWriteData
    \/ MainRunTests
    \/ MainCollect
    \/ MainCleanup

SpecMain == InitMain /\ [][NextMain]_vars

\* the process has ended
MainEnded == main_pc \in {"returned", "exited"}

\* a configuration file that a run outside dry-run mode can load
Loadable == yaml.valid /\ get_vm_hosts([config EXCEPT !.dry_run = FALSE],
                                       yaml, TRUE, TRUE) = "hosts"

(***************************************************************************)
(* C11: a whole run in dry-run mode (of a configuration that a real run    *)
(* can load) ends with exit code 0 without issuing any remote command,     *)
(* probe, migration or file transfer.                                      *)
(***************************************************************************)
C11_DryRunEndsWithZero ==
    (config.dry_run /\ Loadable) =>
        /\ remote = {}
        /\ MainEnded => main_exit = 0

(***************************************************************************)
(* C15: a retry interval, a maximum retry count or a poll interval given   *)
(* on the command line overrides the value of the configuration file: once *)
(* the configuration is loaded, execute_command and the poller use the     *)
(* command-line value.                                                     *)
(***************************************************************************)
C15_CommandLineOverrides ==
    main_pc \in {"deps", "gate", "prepare", "write", "tests", "collect",
                 "cleanup", "returned"} =>
        /\ args.interval # -1 => settings.retry_interval = args.interval
        /\ args.max_retries # -1 => settings.max_retries = args.max_retries
        /\ args.monitor_interval # -1 =>
              check_interval(settings) = args.monitor_interval

(***************************************************************************)
(* C21: a migration that still has failed hosts after the retry pass does  *)
(* not abort the run: the driver goes on to the polling of the current     *)
(* iteration and to the remaining iterations, and the exit code of the     *)
(* process is unchanged.                                                   *)
(***************************************************************************)
C21_State ==
    /\ exit_code = -1
    /\ drv_pc # "raised"
    /\ mig_returned # "none" => (drv_pc = "join" /\ mig_pc = "off")
    /\ (mig_pc = "returned" /\ mig_result = "False") =>
          (drv_pc = "migrate" /\ retry_failed # <<>> /\ ENABLED DrvMigReturned)

C21_MigrationFailureDoesNotAbort ==
    /\ []C21_State
    /\ [][ /\ (mig_pc = "returned" /\ mig_pc' # mig_pc) =>
                /\ drv_pc' = "join" /\ iter' = iter /\ drv_k' = 0
                /\ exit_code' = exit_code
                /\ mig_returned' = mig_result
           /\ (mig_returned = "False" /\ drv_pc' # drv_pc) =>
                (drv_pc' = "probe_issue" /\ iter' = iter /\ since_start' = 0) ]_vars

\* the migration returned False with a host left over, and the driver is
\* joining the launch threads of an iteration that is not the last one
C21_Witness ==
    /\ mig_returned = "False" /\ drv_pc = "join"
    /\ iter < Len(Iterations(config))
    /\ exit_code = -1

\* the value the last is_vm_host call returned
LastKind == kinds[last_probe.host][Len(kinds[last_probe.host])]

(***************************************************************************)
(* C22: is_vm_host returns the forced kind without any probe when          *)
(* use_virtctl is True or False; with no override it returns Proxied       *)
(* exactly when the VM probe or, that one failing, the VMI probe succeeds, *)
(* and Direct when both report not found, when a probe times out or when   *)
(* the probe tool is missing.                                              *)
(***************************************************************************)
C22_ClassificationTable ==
    last_probe.host # 0 =>
        /\ config.use_virtctl = "True" => (LastKind /\ last_probe.commands = 0)
        /\ config.use_virtctl = "False" => (~LastKind /\ last_probe.commands = 0)
        /\ config.use_virtctl = "None" =>
              /\ LastKind <=> \/ last_probe.vm = "found"
                              \/ (last_probe.vm = "notfound"
                                  /\ last_probe.vmi = "found")
              /\ (last_probe.vm = "notfound" /\ last_probe.vmi = "notfound")
                    => ~LastKind
              /\ "timeout" \in {last_probe.vm, last_probe.vmi} => ~LastKind
              /\ "missing" \in {last_probe.vm, last_probe.vmi} => ~LastKind
              /\ last_probe.vm # "notfound" => last_probe.vmi = "none"

\* auto-detection: the VM probe found nothing, the VMI probe found the host
C22_Witness ==
    /\ config.use_virtctl = "None"
    /\ last_probe.host # 0
    /\ last_probe.vm = "notfound" /\ last_probe.vmi = "found"
    /\ last_probe.commands = 2
    /\ LastKind

\* the order of the states of a background job
StateRank(st) ==
    CASE st = "none" -> 0
      [] st = "Starting" -> 1
      [] st \in {"ConfirmedRunning", "Unconfirmed", "Failed"} -> 2
      [] st = "Completed" -> 3

(***************************************************************************)
(* C23: the state of a background job only moves forward along Starting -> *)
(* {ConfirmedRunning, Unconfirmed, Failed} -> Completed: a launch reported *)
(* ConfirmedRunning or Failed never returns to Starting, and a job         *)
(* reported Failed is never later reported ConfirmedRunning by the same    *)
(* launch.                                                                 *)
(***************************************************************************)
C23_StateMovesForward ==
    [][\A h \in Hosts :
          launch'[h].state # launch[h].state =>
              /\ StateRank(launch[h].state) < StateRank(launch'[h].state)
              /\ launch[h].state \notin {"ConfirmedRunning", "Failed"}
              /\ launch'[h].state # "Starting" => launch'[h].pc = "done"]_vars

\* the launches of both kinds of outcome have ended
C23_Witness ==
    /\ \A h \in Hosts : launch[h].pc = "done"
    /\ \E h \in Hosts : launch[h].state = "Failed"
    /\ \E h \in Hosts : launch[h].state = "ConfirmedRunning"

(***************************************************************************)
(* C27: whenever the launcher cannot obtain a process id (the launch call  *)
(* succeeded with no parsable id, or the launch call failed or timed out)  *)
(* and the liveness probe after the grace wait reports the process not     *)
(* running, the launch is reported as Failed.                              *)
(***************************************************************************)
C27_NotRunningIsFailed ==
    \A h \in Hosts :
        (/\ launch[h].pc = "done"
         /\ launch[h].branch \in {"ok", "fail"}
         /\ launch[h].seen = "absent") => launch[h].state = "Failed"

(***************************************************************************)
(* SpecDetach: execute_background called with any command, for the choice  *)
(* between the detached launch (script and nohup) and the synchronous      *)
(* execute_command.                                                        *)
(***************************************************************************)
InitDetach ==
    /\ config = [BaseConfig EXCEPT !.use_virtctl = "False",
                                   !.namespace = "N/A",
                                   !.max_retries = 2]
    /\ fio_cmd \in Commands
    /\ ex = [h \in Hosts |-> IdleCall]
    /\ LaunchIdle
    /\ PoolOff
    /\ MigOff
    /\ DrvOff
    /\ HistOff
    /\ AuxOff

SpecDetach == InitDetach /\ [][NextLaunch]_vars

\* run_command of host h has made its choice
Chosen(h) == launch[h].pc \notin {"idle", "started"}

(***************************************************************************)
(* C28: execute_background launches a command detached if and only if the  *)
(* command lacks an explicit short bounded duration: it has --runtime with *)
(* a value above 30, or is the benchmark binary without --runtime, or has  *)
(* no --runtime at all; a command with --runtime of at most 30 runs        *)
(* synchronously through execute_command.                                  *)
(***************************************************************************)
C28_DetachedIffNoShortDuration ==
    \A h \in Hosts :
        Chosen(h) =>
            /\ launch[h].use_nohup <=>
                  \/ (fio_cmd.has_runtime /\ fio_cmd.matched /\ fio_cmd.value > 30)
                  \/ (fio_cmd.fio /\ ~fio_cmd.has_runtime)
                  \/ ~fio_cmd.has_runtime
            /\ (fio_cmd.has_runtime /\ fio_cmd.matched /\ fio_cmd.value <= 30)
                  => ~launch[h].use_nohup

\* the migration commands in flight
MigrationsInFlight == {h \in Hosts : mig_state[h] = "running"}

(***************************************************************************)
(* C24: in sequential migration mode at most one migration command is in   *)
(* flight at any time, and between every two consecutive migration         *)
(* attempts of a pass the coordinator sleeps migrate_interval seconds,     *)
(* whatever the outcome of the earlier attempt (success, non-zero exit,    *)
(* exception or timeout); with N hosts all succeeding there are exactly    *)
(* N - 1 such sleeps.                                                      *)
(***************************************************************************)
C24_State ==
    Sequential(config) =>
        /\ Cardinality(MigrationsInFlight) <= 1
        /\ (mig_pc = "returned" /\ vms_to_migrate # <<>> /\ failed_vms = <<>>)
              => mig_sleeps = Len(vms_to_migrate) - 1

C24_SleepBetweenAttempts ==
    /\ []C24_State
    /\ [][(Sequential(config) /\ mig_pc = "seq_run" /\ mig_pc' = "seq_issue")
              => (mig_pass = 1 /\ mig_pass' = 2)]_vars

\* the hosts whose first migration attempt failed
FailedFirst == {h \in Hosts : Targeted(h) /\ mig_out[h][1] \in {"nonzero", "exception"}}

(***************************************************************************)
(* C25: migrate_vms_during_test makes exactly one retry pass, and only     *)
(* when the first pass left failures: the retry pass targets exactly the   *)
(* hosts that failed the first attempt (a host that succeeded first is     *)
(* never migrated again), it starts only after the whole first pass has    *)
(* finished, and it uses the same mode as the first pass.                  *)
(***************************************************************************)
C25_State ==
    /\ mig_pass \in {1, 2}
    /\ mig_pass = 2 =>
          /\ failed_vms # <<>>
          /\ Range(failed_vms) = FailedFirst
          /\ Len(failed_vms) = Cardinality(FailedFirst)
          /\ \A h \in Hosts : Targeted(h) => mig_out[h][1] # "none"
          /\ IF Sequential(config)
             THEN mig_pc \in {"seq_issue", "seq_run", "seq_sleep", "returned"}
             ELSE mig_pc \in {"par_submit", "par_collect", "returned"}
    /\ \A h \in Hosts :
          /\ mig_attempts[h] = 2 => (mig_pass = 2 /\ h \in FailedFirst)
          /\ mig_out[h][1] = "ok" => (mig_attempts[h] = 1 /\ mig_out[h][2] = "none")
          /\ (mig_pass = 1 /\ mig_state[h] # "running") =>
                mig_attempts[h] = (IF mig_out[h][1] = "none" THEN 0 ELSE 1)
    /\ mig_pc = "returned" => (mig_pass = 2 <=> failed_vms # <<>>)

C25_OneRetryPassOverFailures ==
    /\ []C25_State
    /\ [][mig_pass' # mig_pass => (mig_pass = 1 /\ mig_pass' = 2)]_vars

\* the parallel retry pass is under way for a host that failed first, next to
\* a host that succeeded first
C25_Witness ==
    /\ ~Sequential(config) /\ mig_pass = 2 /\ mig_pc = "par_collect"
    /\ \E h \in Hosts : mig_state[h] = "running" /\ mig_attempts[h] = 2
    /\ \E h \in Hosts : mig_out[h][1] = "ok" /\ mig_attempts[h] = 1

(***************************************************************************)
(* C26: migrate_vms_during_test returns True without issuing any migration *)
(* command when there is nothing applicable: the pattern is not in         *)
(* migrate_workloads, SSH-only mode is forced, the namespace is unset or   *)
(* "N/A", or no configured host is classified as Proxied.                  *)
(***************************************************************************)
C26_State ==
    mig_pattern # "none" =>
        /\ (\/ mig_pattern \notin config.migrate_workloads
            \/ config.use_virtctl = "False"
            \/ config.namespace \in {"", "N/A"}
            \/ vms_to_migrate = <<>>) =>
              /\ mig_pc = "returned" /\ mig_result = "True"
              /\ vms_to_migrate = <<>>
              /\ \A h \in Hosts : mig_attempts[h] = 0 /\ mig_state[h] = "idle"
              /\ mig_sleeps = 0
        /\ vms_to_migrate # <<>> =>
              /\ mig_pattern \in config.migrate_workloads
              /\ config.use_virtctl # "False"
              /\ config.namespace \notin {"", "N/A"}

C26_NothingToMigrateIsTrue ==
    /\ []C26_State
    /\ [][(mig_pc = "entry" /\ mig_pc' = "returned") =>
             /\ mig_result' = "True"
             /\ mig_attempts' = mig_attempts /\ mig_state' = mig_state]_vars

\* auto-detection found no VM among the hosts of a pattern to migrate
C26_Witness ==
    /\ mig_pc = "returned" /\ mig_result = "True"
    /\ mig_pattern \in config.migrate_workloads
    /\ config.use_virtctl = "None" /\ config.namespace = "ns1"
    /\ vms_to_migrate = <<>>
    /\ \A h \in Hosts : mig_attempts[h] = 0

(***************************************************************************)
(* C29: within one poll round the liveness probes of the hosts are         *)
(* dispatched in parallel, one worker per host: the probe of the next host *)
(* is dispatched without waiting for the probe in flight, so that probes   *)
(* to two hosts can be in flight at the same time.                         *)
(***************************************************************************)
C29_ProbesInParallel ==
    (drv_pc = "probing" /\ drv_k + 1 < NumHosts) => ENABLED DrvProbeIssue

\* the deadline of the poll loop has not passed
BeforeDeadline == since_start <= config.test_runtime + 60

(***************************************************************************)
(* C30: the completion poller ends an iteration before the deadline only   *)
(* in a poll round in which every host's probe reported not-running, and   *)
(* it ends it in the first such round without a further sleep; as long as  *)
(* some host reports running and the deadline has not passed, it sleeps    *)
(* one poll interval and polls again.                                      *)
(***************************************************************************)
C30_State ==
    /\ drv_pc \in {"probe_issue", "probing"} =>
          /\ running_count <= drv_k
          /\ all_done <=> running_count = 0
    /\ drv_pc = "round_end" => (all_done <=> running_count = 0)
    /\ (drv_pc = "settled" /\ BeforeDeadline) => (all_done /\ running_count = 0)

C30_EndsInFirstQuietRound ==
    /\ []C30_State
    /\ [][ /\ (drv_pc = "round_end" /\ drv_pc' # drv_pc /\ all_done) =>
                (drv_pc' = "settled" /\ since_start' = since_start)
           /\ (drv_pc = "round_end" /\ drv_pc' # drv_pc /\ ~all_done
                 /\ BeforeDeadline) =>
                /\ drv_pc' = "probe_issue" /\ drv_k' = 0
                /\ since_start' = since_start + 10
                /\ all_done' /\ running_count' = 0
           /\ (drv_pc # "settled" /\ drv_pc' = "settled" /\ BeforeDeadline) =>
                (drv_pc = "round_end" /\ all_done) ]_vars

\* the second round, after one sleep, found every job ended
C30_Witness ==
    /\ drv_pc = "settled" /\ all_done
    /\ since_start = 10
    /\ \A h \in Hosts : job[h] = "ended"

(***************************************************************************)
(* The strings run_fio_tests builds from the pair of an iteration.  A      *)
(* configured value (a whitespace-free token of the YAML strings           *)
(* block_sizes and io_patterns) is a sequence of pieces; an f-string       *)
(* concatenates.                                                           *)
(***************************************************************************)
Pieces == {"a", "-bs-"}

MaxPieces == 2

\* load_config lines 375-376: the tokens of fio.block_sizes, fio.io_patterns
Tokens == UNION {[1..n -> Pieces] : n \in 1..MaxPieces}

\* the lists str.split() can give: one or two different tokens
TokenLists ==
    {<<v>> : v \in Tokens}
        \cup {l \in {<<v, w>> : v \in Tokens, w \in Tokens} : l[1] # l[2]}

\* line 1133: test_name = f"fio-test-{pattern}-bs-{bs}"
test_name(pattern, bs) == <<"fio-test-">> \o pattern \o <<"-bs-">> \o bs

\* line 1134: fio_cmd += f" --output={test_name}.json"
OutputFile(name) == name \o <<".json">>

\* line 1175: f"fio.*{test_name}"
LivenessPattern(name) == <<"fio.*">> \o name

\* line 1197: f"test -f {config.output_dir}/{test_name}.json ..."
ResultFile(name) == <<"output_dir/">> \o name \o <<".json">>

NoName == <<>>

InitNames ==
    /\ \E bl \in TokenLists, pl \in TokenLists :
         config = [BaseConfig EXCEPT !.use_virtctl = "False", !.namespace = "N/A",
                                     !.block_sizes = bl, !.io_patterns = pl]
    /\ ex = [h \in Hosts |-> IdleCall]
    /\ PoolOff
    /\ MigOff
    /\ LaunchOff
    /\ iter = 1 /\ drv_pc = "dispatch" /\ drv_k = 0 /\ drv_call = IdleCall
    /\ PollIdle
    /\ HistOff
    /\ MainOff /\ ClassOff /\ TimedOff
    /\ artifact = <<>>

NamesRest == <<mainVars, classVars, timedVars, histVars, config, ex, poolVars,
               migVars, launchVars>>

CurrentName ==
    test_name(Iterations(config)[iter][2], Iterations(config)[iter][1])

\* lines 1133-1141: the command of the iteration is built and launched
NameLaunch ==
    /\ drv_pc = "dispatch"
    /\ artifact' = Append(artifact,
                          [pair |-> Iterations(config)[iter],
                           output |-> OutputFile(CurrentName),
                           liveness |-> NoName, result |-> NoName])
    /\ drv_pc' = "probe_issue"
    /\ UNCHANGED <<NamesRest, iter, drv_k, drv_call, since_start, all_done,
                   running_count, result_files_exist>>

\* line 1175: a poll round probes with the pattern of the iteration
NamePoll ==
    /\ drv_pc = "probe_issue"
    /\ artifact' = [artifact EXCEPT ![iter].liveness = LivenessPattern(CurrentName)]
    /\ \E next \in {"probe_issue", "check_issue", "settled"} : drv_pc' = next
    /\ UNCHANGED <<NamesRest, iter, drv_k, drv_call, since_start, all_done,
                   running_count, result_files_exist>>

\* line 1197: the fallback check looks for the result file
NameCheck ==
    /\ drv_pc = "check_issue"
    /\ artifact' = [artifact EXCEPT ![iter].result = ResultFile(CurrentName)]
    /\ drv_pc' = "settled"
    /\ UNCHANGED <<NamesRest, iter, drv_k, drv_call, since_start, all_done,
                   running_count, result_files_exist>>

\* line 1213: the next pair, or the end of the loops
NameNext ==
    /\ drv_pc = "settled"
    /\ IF iter < Len(Iterations(config))
       THEN iter' = iter + 1 /\ drv_pc' = "dispatch"
       ELSE drv_pc' = "returned" /\ UNCHANGED iter
    /\ UNCHANGED <<NamesRest, artifact, drv_k, drv_call, since_start, all_done,
                   running_count, result_files_exist>>

NextNames == NameLaunch \/ NamePoll \/ NameCheck \/ NameNext

SpecNames == InitNames /\ [][NextNames]_vars

\* the artifact name inside the strings of iteration i
NameInOutput(i) == SubSeq(artifact[i].output, 1, Len(artifact[i].output) - 1)
NameInLiveness(i) == SubSeq(artifact[i].liveness, 2, Len(artifact[i].liveness))
NameInResult(i) == SubSeq(artifact[i].result, 2, Len(artifact[i].result) - 1)

(***************************************************************************)
(* C32, first half: within one iteration the same artifact name            *)
(* fio-test-<pattern>-bs-<blocksize>, derived from that iteration's pair,  *)
(* is used in the launch command's output file, in the liveness pattern    *)
(* probed by the poller and in the fallback artifact check.                *)
(***************************************************************************)
C32_SameNameWithinIteration ==
    \A i \in 1..Len(artifact) :
        LET name == test_name(artifact[i].pair[2], artifact[i].pair[1]) IN
        /\ NameInOutput(i) = name
        /\ artifact[i].liveness # NoName => NameInLiveness(i) = name
        /\ artifact[i].result # NoName => NameInResult(i) = name

(***************************************************************************)
(* C32: within one iteration the same artifact name is used in the output  *)
(* file, the liveness pattern and the fallback check, and two iterations   *)
(* with different (pattern, block size) pairs from the configured lists    *)
(* never use the same artifact name.                                       *)
(***************************************************************************)
C32_ArtifactNameOfThePair ==
    /\ C32_SameNameWithinIteration
    /\ \A i, j \in 1..Len(artifact) :
          artifact[i].pair # artifact[j].pair
             => NameInOutput(i) # NameInOutput(j)

(***************************************************************************)
(* C33: for each host and each launch, the detached start script is sent   *)
(* to the host at most once, so one launch starts at most one benchmark    *)
(* process on the host, including when the launch call returns a non-zero  *)
(* exit or raises after the remote process has already been started.       *)
(***************************************************************************)
C33_ScriptSentAtMostOnce ==
    \A h \in Hosts :
        launch[h].use_nohup => (launch[h].sent <= 1 /\ launch[h].procs <= 1)

(***************************************************************************)
(* C34: no host ever has benchmark work of two different iterations active *)
(* at once: when the driver launches the next iteration on a host, neither *)
(* the job nor the launch operation of the iteration before is still       *)
(* running on that host, whatever the probes and the poll outcomes were.   *)
(***************************************************************************)
C34_IterationsNeverOverlap ==
    [][\A h \in Hosts :
          (drv_pc = "dispatch" /\ launches'[h] = launches[h] + 1)
             => (job[h] # "running" /\ ~LaunchAlive(h))]_vars

(***************************************************************************)
(* SpecRelaunch: execute_background called for hosts on which a process of *)
(* dataset priming or of an earlier iteration may still be running (both   *)
(* poll loops can end with processes running).  Every fio process of the   *)
(* run is started with --name=testfile, so job[h] = "running" stands for   *)
(* "a process matching fio.*testfile runs on the host"; launch[h].procs    *)
(* counts the processes this launch started.                               *)
(***************************************************************************)
InitRelaunch ==
    /\ \E t \in TransportConfigs, m \in {1, 2} :
         /\ t.use_virtctl # "None" /\ t.namespace # ""
         /\ config = [BaseConfig EXCEPT !.use_virtctl = t.use_virtctl,
                                        !.namespace = t.namespace,
                                        !.max_retries = m]
    /\ fio_cmd \in LaunchCommands
    /\ ex = [h \in Hosts |-> IdleCall]
    /\ launch = [h \in Hosts |-> NoThread]
    /\ job \in [Hosts -> {"none", "running"}]
    /\ PoolOff
    /\ MigOff
    /\ DrvOff
    /\ HistOff
    /\ AuxOff

SpecRelaunch == InitRelaunch /\ [][NextLaunch]_vars

(***************************************************************************)
(* C35: a launch is reported as confirmed running only if the process      *)
(* started by that very launch is running on the host: a process left over *)
(* from dataset priming or from an earlier iteration on the same host      *)
(* never causes a new launch to be reported as confirmed.                  *)
(***************************************************************************)
C35_ConfirmedMeansOwnProcess ==
    \A h \in Hosts :
        launch[h].state = "ConfirmedRunning" => launch[h].procs >= 1

\* a normal run: not dry-run, not prepare-only, confirmation not skipped
NormalRun == ~config.dry_run /\ ~args.prepare_machine /\ ~args.yes_i_mean_it

\* the remote operations that reach a host
HostKinds == {"command", "probe", "migration", "transfer"}

(***************************************************************************)
(* C36 (as stated): in a normal (non-dry-run, non-prepare-only) run        *)
(* without the skip-confirmation flag, no remote command of any kind is    *)
(* issued unless the operator answered exactly "yes" to the prompt; on any *)
(* other answer the run ends with exit code 0.                             *)
(***************************************************************************)
C36_NothingRemoteBeforeYes ==
    (NormalRun /\ confirm # "yes") =>
        /\ remote = {}
        /\ confirm # "none" => (main_pc = "returned" /\ main_exit = 0)

(***************************************************************************)
(* C36 (amended): in a normal run without the skip-confirmation flag,      *)
(* nothing is issued to any host (no command, probe, migration or file     *)
(* transfer) unless the operator answered exactly "yes"; on any other      *)
(* answer the run ends with exit code 0 and no host has been touched.  The *)
(* one remote operation that can precede the prompt is the label query     *)
(* with which load_config resolves the host list.                          *)
(***************************************************************************)
C36_NoHostTouchedBeforeYes ==
    (NormalRun /\ confirm # "yes") =>
        /\ remote \cap HostKinds = {}
        /\ remote \subseteq {"label_query"}
        /\ confirm # "none" => (main_pc = "returned" /\ main_exit = 0)

\* the operator typed "y" after the host list had been resolved by a label
\* query: the run ended with code 0
C36_Witness ==
    /\ NormalRun /\ confirm = "y"
    /\ main_pc = "returned" /\ main_exit = 0
    /\ remote = {"label_query"}

(***************************************************************************)
(* C37: execute_command always ends by returning a (success, output)       *)
(* result and never by raising: when the host is forced to the Proxied     *)
(* transport but the namespace is unset or "N/A", the call returns a       *)
(* failure result for that host instead of propagating an error into the   *)
(* fleet-wide step.                                                        *)
(***************************************************************************)
C37_AlwaysReturnsAResult ==
    \A h \in Hosts :
        /\ ex[h].pc # "raised"
        /\ (ex[h].pc # "idle" /\ ~config.dry_run /\ config.use_virtctl = "True"
              /\ NamespaceUnset(config.namespace))
             => (ex[h].pc = "done" /\ ~ex[h].success)

\* what is_vm_host answered for host h when the list of VMs was built
ClassifiedProxied(h) == kinds[h] = <<TRUE>>
ClassifiedDirect(h) == kinds[h] = <<FALSE>>

(***************************************************************************)
(* C38: migration commands are issued only for hosts that is_vm_host       *)
(* classifies as Proxied at migration time: a configured host classified   *)
(* Direct is never the target of a migration attempt, in either pass and   *)
(* either mode.                                                            *)
(***************************************************************************)
C38_OnlyProxiedHostsMigrated ==
    \A h \in Hosts :
        /\ (mig_attempts[h] > 0 \/ mig_state[h] # "idle")
              => (ClassifiedProxied(h) /\ Targeted(h))
        /\ (h \in Range(failed_vms) \/ h \in Range(retry_failed))
              => ClassifiedProxied(h)
        /\ ClassifiedDirect(h) =>
              (mig_attempts[h] = 0 /\ mig_out[h] = <<"none", "none">>)

\* auto-detection took one host for a VM and the other not; the VM was
\* migrated in both passes and the other host was left alone
C38_Witness ==
    /\ mig_pc = "returned"
    /\ \E h \in Hosts : ClassifiedProxied(h) /\ mig_attempts[h] = 2
    /\ \E h \in Hosts : ClassifiedDirect(h) /\ mig_attempts[h] = 0

(***************************************************************************)
(* C39: execute_command called with max_retries <= 0 (not dry-run) issues  *)
(* no remote invocation and no sleep and returns failure with the text     *)
(* "Max retries exceeded"; with max_retries >= 1 it never sleeps after its *)
(* final attempt, so the number of retry sleeps is at most the number of   *)
(* attempts minus one.                                                     *)
(***************************************************************************)
C39_NoAttemptsNoSleepAfterLast ==
    \A h \in Hosts :
        (ex[h].pc # "idle" /\ ~config.dry_run) =>
            /\ ex[h].max_retries <= 0 =>
                  /\ ex[h].invocations = 0 /\ ex[h].sleeps = 0
                  /\ ex[h].pc = "done" /\ ~ex[h].success
                  /\ ex[h].output = "Max retries exceeded"
            /\ ex[h].max_retries >= 1 =>
                  /\ ex[h].pc = "sleep" => ex[h].attempt < ex[h].max_retries
                  /\ ex[h].pc \in {"attempt", "sleep"} =>
                        ex[h].sleeps <= ex[h].attempt - 1
                  /\ ex[h].pc = "done" =>
                        (ex[h].invocations >= 1
                         /\ ex[h].sleeps <= ex[h].invocations - 1)
                  /\ ex[h].invocations = 0 => ex[h].sleeps = 0

====
